---- MODULE Spec2Model ----
(***************************************************************************)
(* Verification model of the 0-DTE credit spread algorithms.               *)
(*                                                                         *)
(* Money (strikes, quotes, credits, debits) is counted in units of 1/20 of *)
(* a cent, so that one dollar is 2000 units and the 95% limit buffer of    *)
(* place_spread_order stays an integer.  Deltas are counted in hundredths. *)
(* Dates are day numbers.  None is the Python None.                        *)
(***************************************************************************)
EXTENDS Integers, Sequences, FiniteSets, TLC

None == -1

Abs(x) == IF x < 0 THEN 0 - x ELSE x

(***************************************************************************)
(* Bounds of the model.                                                    *)
(***************************************************************************)
MaxChain == 3
MaxBullChain == 2
MaxBullOrders == 2
MaxOrders == 6
MaxDays == 2

(***************************************************************************)
(* SpreadSelector parameters (spread_selector.py, __init__ defaults).      *)
(***************************************************************************)
target_delta == 15
max_delta == 30
max_spread_width == 10000
min_spread_width == 2000
min_credit_pct == 20
min_credit_fallback_pct == 15
DefaultWidthFallbacks == <<10000, 8000, 6000, 4000, 2000>>

(***************************************************************************)
(* Option contracts as the platform delivers them in a chain.              *)
(***************************************************************************)
Today == 1
NoDelta == 999
StrikeGrid == <<20000, 21000, 30000, 32000>>
Deltas == {NoDelta, -5, -15, -25, -40}
Quotes == {<<0, 100>>, <<400, 440>>, <<2200, 2300>>}

Contract(r, e, k, d, q) ==
    [right |-> r, expiry |-> e, strike |-> k, delta |-> d, bid |-> q[1], ask |-> q[2]]

\* what a strike of the grid may carry: nothing, a put expiring today, a call
\* expiring today or a put expiring tomorrow
SlotsAt(k) ==
    {<<>>}
    \cup {<<Contract("PUT", Today, k, d, q)>> : d \in Deltas, q \in Quotes}
    \cup {<<Contract("CALL", Today, k, -15, <<2200, 2300>>)>>,
          <<Contract("PUT", Today + 1, k, -15, <<2200, 2300>>)>>}

RECURSIVE ChainsFrom(_)
ChainsFrom(i) ==
    IF i > Len(StrikeGrid) THEN {<<>>}
    ELSE {s \o rest : s \in SlotsAt(StrikeGrid[i]), rest \in ChainsFrom(i + 1)}

RECURSIVE Reverse(_)
Reverse(s) == IF s = <<>> THEN <<>> ELSE Reverse(Tail(s)) \o <<Head(s)>>

\* the chains of at most MaxChain contracts, iterated by ascending or by
\* descending strike
Chains ==
    LET asc == {c \in ChainsFrom(1) : Len(c) <= MaxChain}
    IN  asc \cup {Reverse(c) : c \in asc}

WidthFallbackLists == {DefaultWidthFallbacks, <<12000, 1000, 9000>>}

(***************************************************************************)
(* Python list helpers.                                                    *)
(***************************************************************************)
RECURSIVE FilterBy(_, _)
FilterBy(s, keep) ==
    IF s = <<>> THEN <<>>
    ELSE IF Head(keep) THEN <<Head(s)>> \o FilterBy(Tail(s), Tail(keep))
         ELSE FilterBy(Tail(s), Tail(keep))

\* [x for x in s if P(x)]
Filter(s, P(_)) == FilterBy(s, [i \in 1..Len(s) |-> P(s[i])])

\* insertion of a <<key, element>> pair behind the pairs of smaller or equal key
RECURSIVE InsertAsc(_, _)
InsertAsc(x, s) ==
    IF s = <<>> THEN <<x>>
    ELSE IF Head(s)[1] <= x[1] THEN <<Head(s)>> \o InsertAsc(x, Tail(s))
         ELSE <<x>> \o s

RECURSIVE SortPairs(_)
SortPairs(s) ==
    IF s = <<>> THEN <<>>
    ELSE InsertAsc(s[Len(s)], SortPairs(SubSeq(s, 1, Len(s) - 1)))

\* list.sort(key=...): stable, ascending
SortAsc(s, key(_)) ==
    LET sorted == SortPairs([i \in 1..Len(s) |-> <<key(s[i]), s[i]>>])
    IN  [i \in 1..Len(s) |-> sorted[i][2]]

\* list.sort(key=..., reverse=True): stable, descending
SortDesc(s, key(_)) == LET neg(x) == 0 - key(x) IN SortAsc(s, neg)

RECURSIVE MinStrike(_)
MinStrike(s) ==
    IF Len(s) = 1 THEN s[1].strike
    ELSE LET m == MinStrike(Tail(s)) IN IF s[1].strike < m THEN s[1].strike ELSE m

HasDelta(c) == c.delta # NoDelta

(***************************************************************************)
(* SpreadSelector.select_bull_put_spread                                   *)
(***************************************************************************)
NoSpread == [spread |-> None, max_profit |-> None, max_loss |-> None, breakeven |-> None]

\* the selector returned a spread
Found(r) == r.max_profit # None

\* a put of any expiry
IsTodayPut_anyexpiry(c, today) == c.right = "PUT"

IsTodayPut(c, today) == c.right = "PUT" /\ c.expiry = today

\* the signed delta compared against max_delta
ValidShortCandidate_signed(c) == HasDelta(c) /\ c.delta <= max_delta

\* candidates for the short leg: greeks present and |delta| <= max_delta
ValidShortCandidate(c) == HasDelta(c) /\ Abs(c.delta) <= max_delta

\* the order in which the short candidates are tried
StartingCandidates(put_contracts) ==
    LET absdelta(c) == Abs(c.delta)
        valid == SortAsc(Filter(put_contracts, ValidShortCandidate), absdelta)
        attarget(c) == Abs(c.delta) <= target_delta
        dist(c) == Abs(target_delta - Abs(c.delta))
        target_candidates == SortAsc(Filter(valid, attarget), dist)
    IN  IF target_candidates = <<>> THEN valid
        ELSE LET closest_delta == Abs(target_candidates[1].delta)
                 fromclosest(c) == Abs(c.delta) >= closest_delta
             IN  SortAsc(Filter(valid, fromclosest), absdelta)

\* every positive credit that is not preferred passes as a fallback
TestResult_nofloor(net_credit, spread_width) ==
    IF net_credit * 100 >= spread_width * min_credit_pct THEN "PREFERRED" ELSE "FALLBACK"

TestResult(net_credit, spread_width) ==
    IF net_credit * 100 >= spread_width * min_credit_pct THEN "PREFERRED"
    ELSE IF net_credit * 100 >= spread_width * min_credit_fallback_pct THEN "FALLBACK"
    ELSE "REJECTED"

\* no width is skipped for exceeding the maximum
ExceedsMaxWidth_never(target_width) == FALSE

ExceedsMaxWidth(target_width) == target_width > max_spread_width

\* the spreads one short put yields over the width fallbacks, in the order
\* tested; each is tagged PREFERRED, FALLBACK or REJECTED
RECURSIVE TestedSpreads(_, _, _)
TestedSpreads(short_put, put_contracts, widths) ==
    IF widths = <<>> THEN <<>>
    ELSE
      LET target_width == Head(widths)
          rest == TestedSpreads(short_put, put_contracts, Tail(widths))
          short_strike == short_put.strike
          islong(c) == c.strike < short_strike /\ (short_strike - c.strike) <= target_width
          width(c) == short_strike - c.strike
          long_candidates == SortDesc(Filter(put_contracts, islong), width)
      IN
        IF ExceedsMaxWidth(target_width) THEN rest
        ELSE IF short_strike - MinStrike(put_contracts) < target_width THEN rest
        ELSE IF long_candidates = <<>> THEN rest
        ELSE
          LET long_put == long_candidates[1]
              spread_width == short_strike - long_put.strike
              net_credit == short_put.bid - long_put.ask
          IN  IF spread_width < min_spread_width THEN rest
              ELSE IF net_credit <= 0 THEN rest
              ELSE <<[short_strike |-> short_strike,
                      long_strike |-> long_put.strike,
                      width |-> spread_width,
                      credit |-> net_credit,
                      result |-> TestResult(net_credit, spread_width)]>> \o rest

RECURSIVE TryShorts(_, _, _)
TryShorts(cands, put_contracts, widths) ==
    IF cands = <<>> THEN NoSpread
    ELSE
      LET short_put == Head(cands)
          tested == TestedSpreads(short_put, put_contracts, widths)
          ispref(s) == s.result = "PREFERRED"
          isfb(s) == s.result = "FALLBACK"
          credit(s) == s.credit
          preferred_spreads == SortDesc(Filter(tested, ispref), credit)
          fallback_spreads == SortDesc(Filter(tested, isfb), credit)
      IN
        IF short_put.bid <= 0 THEN TryShorts(Tail(cands), put_contracts, widths)
        ELSE IF preferred_spreads = <<>> /\ fallback_spreads = <<>>
             THEN TryShorts(Tail(cands), put_contracts, widths)
        ELSE
          LET sel == IF preferred_spreads # <<>> THEN preferred_spreads[1]
                     ELSE fallback_spreads[1]
          IN  [spread |-> [short_strike |-> sel.short_strike,
                           long_strike |-> sel.long_strike,
                           expiry |-> short_put.expiry],
               max_profit |-> sel.credit * 100,
               max_loss |-> (sel.width - sel.credit) * 100,
               breakeven |-> sel.short_strike - sel.credit]

select_bull_put_spread(option_chain, today, width_fallbacks) ==
    LET todayput(c) == IsTodayPut(c, today)
        put_contracts == Filter(option_chain, todayput)
    IN  IF option_chain = <<>> THEN NoSpread
        ELSE IF put_contracts = <<>> THEN NoSpread
        ELSE IF Filter(put_contracts, ValidShortCandidate) = <<>> THEN NoSpread
        ELSE TryShorts(StartingCandidates(put_contracts), put_contracts, width_fallbacks)

(***************************************************************************)
(* bull-credit-spread/main.py: Basic_Credit_SpreadAlgorithm                *)
(***************************************************************************)
bull_max_delta == 30

BullDeltas == {NoDelta, -25, -40}

\* the option symbols: puts identified by expiry and strike; three strikes
\* expire today and two tomorrow
BullLegSeq == <<<<Today, 20000>>, <<Today, 21000>>, <<Today, 30000>>,
                <<Today + 1, 20000>>, <<Today + 1, 21000>>>>
BullLegs == {BullLegSeq[i] : i \in 1..Len(BullLegSeq)}

BullSlotsAt(leg) ==
    {<<>>} \cup {<<Contract("PUT", leg[1], leg[2], d, <<2200, 2300>>)>> : d \in BullDeltas}

RECURSIVE BullChainsFrom(_)
BullChainsFrom(i) ==
    IF i > Len(BullLegSeq) THEN {<<>>}
    ELSE {s \o rest : s \in BullSlotsAt(BullLegSeq[i]), rest \in BullChainsFrom(i + 1)}

\* a slice carries no chain for the option symbol, or a chain of at most
\* MaxBullChain puts, or a chain with a call
NoChain == [has_chain |-> FALSE, chain |-> <<>>]
BullSlices ==
    {NoChain}
    \cup {[has_chain |-> TRUE, chain |-> c] :
            c \in {c \in BullChainsFrom(1) : Len(c) <= MaxBullChain}}
    \cup {[has_chain |-> TRUE,
           chain |-> <<Contract("CALL", Today, 21000, 25, <<2200, 2300>>),
                       Contract("PUT", Today, 21000, -25, <<2200, 2300>>)>>]}

ExpiriesOf(contracts) == {contracts[i].expiry : i \in 1..Len(contracts)}
StrikesOf(contracts) == {contracts[i].strike : i \in 1..Len(contracts)}
MinOf(S) == CHOOSE x \in S : \A y \in S : x <= y
MaxOf(S) == CHOOSE x \in S : \A y \in S : x >= y

IsPut(c) == c.right = "PUT"

\* steps 2 and 3: today's puts when there are at least two of them, else the
\* puts of the nearest expiration that has at least two; <<>> when none
TargetContracts(puts, current_date) ==
    LET at(e) == LET on(c) == c.expiry = e IN Filter(puts, on)
        enough == {e \in ExpiriesOf(puts) : Len(at(e)) >= 2}
    IN  IF current_date \in ExpiriesOf(puts) /\ Len(at(current_date)) >= 2
        THEN at(current_date)
        ELSE IF enough = {} THEN <<>>
        ELSE at(MinOf(enough))

BullShortCandidate(c) == HasDelta(c) /\ Abs(c.delta) <= bull_max_delta

\* try_open_spread up to the order: the spread it submits as a one-element
\* sequence, or <<>> when it returns without an order
try_open_spread(slice, current_date) ==
    IF ~slice.has_chain THEN <<>>
    ELSE IF slice.chain = <<>> THEN <<>>
    ELSE
      LET puts == Filter(slice.chain, IsPut)
          target_contracts == TargetContracts(puts, current_date)
          available_strikes == StrikesOf(target_contracts)
          short_put_candidates == Filter(target_contracts, BullShortCandidate)
      IN
        IF target_contracts = <<>> THEN <<>>
        ELSE IF Cardinality(available_strikes) < 2 THEN <<>>
        ELSE IF short_put_candidates = <<>> THEN <<>>
        ELSE
          LET short_put_strike == MaxOf(StrikesOf(short_put_candidates))
              below == {k \in available_strikes : k < short_put_strike}
          IN  IF below = {} THEN <<>>
              ELSE <<[short_strike |-> short_put_strike,
                      long_strike |-> MaxOf(below),
                      expiry |-> target_contracts[1].expiry]>>

(***************************************************************************)
(* v2_credit_spread_algo: OrderExecutor, RiskManager and the algorithm.    *)
(*                                                                         *)
(* The operators below take and return the record x of everything a        *)
(* callback can change: the executor's fields, the orders and holdings     *)
(* kept by the platform, and the log of the running callback.              *)
(***************************************************************************)
stop_loss_multiple == 2

\* the chain the platform delivers on date d: a 0-DTE put pair, or contracts
\* that are not puts of that date
PairChain(d) == <<Contract("PUT", d, 30000, -5, <<0, 100>>),
                  Contract("PUT", d, 32000, -15, <<400, 600>>)>>
OtherChain(d) == <<Contract("CALL", d, 32000, 15, <<400, 440>>),
                   Contract("PUT", d + 1, 32000, -15, <<400, 440>>)>>
\* a slice without option chain gives <<>>
V2Slices(d) == {<<>>, PairChain(d), OtherChain(d)}
\* the chain of a later tick of the day: the upper put is quoted higher
MovedChain(d) == <<Contract("PUT", d, 30000, -5, <<0, 100>>),
                   Contract("PUT", d, 32000, -15, <<1400, 1600>>)>>
V2Ticks(d) == V2Slices(d) \cup {MovedChain(d)}

\* the option symbols, named by their strike
Syms == {30000, 32000}
SymSeq == <<30000, 32000>>
\* the prices at which the platform may fill an order of a symbol.  The
\* opening legs are limit orders whose limits differ by the target credit
\* (95% of the selected credit of 300): the lower strike is bought at 100 and
\* the upper strike is sold at 385 or better.  Every other order has one price
FillPricesOf(sym, quantity) ==
    IF sym = 32000 /\ quantity < 0 THEN <<385, 400, 850>>
    ELSE IF sym = 32000 THEN <<600>>
    ELSE <<100>>
\* the price at level p, the last one when the order has fewer levels
FillPrice(sym, quantity, p) ==
    LET prices == FillPricesOf(sym, quantity)
    IN  prices[IF p <= Len(prices) THEN p ELSE Len(prices)]
PriceLevels == 1..3

NoDetails == [short_strike |-> None, long_strike |-> None, initial_credit |-> None,
              max_profit |-> None, max_loss |-> None, breakeven |-> None,
              expiry |-> None]

NoMon == [spread_is_open |-> FALSE, pending_open |-> FALSE, pending_close |-> FALSE,
          initial_credit |-> None, max_profit |-> None, debit |-> None,
          tick_debit |-> None]
NoGuard == [reached |-> FALSE, spread_is_open |-> FALSE, pending_open |-> FALSE,
            details |-> NoDetails, ret |-> "none"]
NoClose == [invoked |-> FALSE, spread_is_open |-> FALSE, pending_close |-> FALSE,
            trace |-> <<>>, ret |-> "none", pending_close_after |-> FALSE]
\* what daily_state_verification returned and left behind
NoVerification == [ret |-> "none", had_positions |-> FALSE, any_flag |-> FALSE,
                   details_before |-> NoDetails, spread_is_open |-> FALSE,
                   pending_open |-> FALSE, pending_close |-> FALSE,
                   details |-> NoDetails]
\* the CANCELED or INVALID event handled: the flags it found, whether the
\* order was a closing order and whether every ticket was in a final status
NoCancel == [status |-> "none", closing |-> FALSE, spread_is_open |-> FALSE,
             pending_open |-> FALSE, pending_close |-> FALSE, all_done |-> FALSE]
\* the log of one callback
\* reset.same_date is whether reset_state was called with last_reset_date
\* equal to the current date, reset.changed whether such a call changed the
\* executor;
\* net_debit is the value of _calculate_net_debit when a close completes and
\* closing_debit the sum over the fills of closing orders at that moment;
\* resubmitted counts the closing orders submitted while pending_close was
\* True and a closing order of the same symbol was open; fills has one entry
\* per FILLED event handled in the callback
NewLog(name) == [name |-> name, had_positions |-> FALSE, submitted |-> 0,
                 trace |-> <<>>, mon |-> NoMon, guard |-> NoGuard, close |-> NoClose,
                 resubmitted |-> 0, fills |-> <<>>,
                 net_debit |-> None, closing_debit |-> None,
                 reset |-> [same_date |-> FALSE, changed |-> FALSE],
                 verification |-> NoVerification, cancel |-> NoCancel]

Bool(b) == IF b THEN "True" ELSE "False"

HasPositions(x) == \E k \in Syms : x.portfolio[k] # 0

reset_spread_details_strikesonly(x) ==
    [x EXCEPT !.current_spread_details.short_strike = None,
              !.current_spread_details.long_strike = None]

reset_spread_details(x) == [x EXCEPT !.current_spread_details = NoDetails]

AnyFlag(x) == x.spread_is_open \/ x.pending_open \/ x.pending_close

ClearFlags_keepdetails(x) ==
    [x EXCEPT !.spread_is_open = FALSE, !.pending_open = FALSE, !.pending_close = FALSE]

ClearFlags(x) ==
    reset_spread_details([x EXCEPT !.spread_is_open = FALSE, !.pending_open = FALSE,
                                   !.pending_close = FALSE])

\* if self.last_reset_date == current_date: return
AlreadyReset_never(x, current_date) == FALSE

AlreadyReset(x, current_date) == x.last_reset_date = current_date

ResetLogged(x, r, current_date) ==
    LET same == x.last_reset_date = current_date
    IN  [r EXCEPT !.log.reset =
            [same_date |-> @.same_date \/ same,
             changed |-> @.changed \/ (same /\ [r EXCEPT !.log = x.log] # x)]]

reset_state(x, current_date) ==
    ResetLogged(x,
        IF AlreadyReset(x, current_date) THEN x
        ELSE LET y == IF ~HasPositions(x)
                      THEN IF AnyFlag(x) THEN ClearFlags(x) ELSE x
                      ELSE IF ~AnyFlag(x) THEN [x EXCEPT !.spread_is_open = TRUE] ELSE x
             IN  [y EXCEPT !.last_reset_date = current_date],
        current_date)

Verified(x, z, ret) ==
    [z EXCEPT !.log.verification =
        [ret |-> Bool(ret), had_positions |-> HasPositions(x),
         any_flag |-> AnyFlag(x), details_before |-> x.current_spread_details,
         spread_is_open |-> z.spread_is_open, pending_open |-> z.pending_open,
         pending_close |-> z.pending_close, details |-> z.current_spread_details]]

daily_state_verification(x, current_date) ==
    LET y == reset_state(x, current_date)
    IN  IF HasPositions(y) THEN Verified(x, [y EXCEPT !.spread_is_open = TRUE], TRUE)
        ELSE Verified(x, IF AnyFlag(y) THEN ClearFlags(y) ELSE y, FALSE)

(***************************************************************************)
(* Order events.                                                           *)
(***************************************************************************)
\* Body with its argument bound to the value of v
With(v, Body(_)) == CHOOSE r \in {Body(y) : y \in {v}} : TRUE

TicketsAll(x, statuses) ==
    \A i \in 1..Len(x.order_tickets) : x.orders[x.order_tickets[i]].status \in statuses

RECURSIVE SumFills(_)
SumFills(aso) ==
    IF aso = <<>> THEN 0
    ELSE Head(aso).quantity * Head(aso).price + SumFills(Tail(aso))

calculate_net_credit(x) == 0 - SumFills(x.active_spread_orders)
calculate_net_debit(x) == SumFills(x.active_spread_orders)

\* the fills of the closing orders among the recorded fills
ClosingFills(x) ==
    SelectSeq(x.active_spread_orders, LAMBDA e : x.orders[e.id].closing)

all_orders_done(x) == TicketsAll(x, {"Filled", "Canceled", "Invalid"})

\* all(ticket.status == OrderStatus.FILLED for ticket in self.order_tickets)
AllTicketsFilled_any(x) ==
    \E i \in 1..Len(x.order_tickets) : x.orders[x.order_tickets[i]].status = "Filled"

AllTicketsFilled(x) == TicketsAll(x, {"Filled"})

on_order_filled(x, order_id, fill_price, fill_quantity) ==
    LET known == \E i \in 1..Len(x.active_spread_orders) :
                     x.active_spread_orders[i].id = order_id
        y == IF known THEN x
             ELSE [x EXCEPT !.active_spread_orders =
                       Append(@, [id |-> order_id, quantity |-> fill_quantity,
                                  price |-> fill_price])]
        tickets_filled == AllTicketsFilled(y)
        net_credit == calculate_net_credit(y)
    IN  IF y.pending_open
        THEN IF tickets_filled /\ net_credit > 0
             THEN [y EXCEPT !.spread_is_open = TRUE, !.pending_open = FALSE,
                            !.current_spread_details.initial_credit = net_credit]
             ELSE y
        ELSE IF y.pending_close /\ tickets_filled
        THEN reset_spread_details(
                 [y EXCEPT !.spread_is_open = FALSE, !.pending_close = FALSE,
                           !.order_tickets = <<>>, !.active_spread_orders = <<>>,
                           !.log.net_debit = calculate_net_debit(y),
                           !.log.closing_debit = SumFills(ClosingFills(y))])
        ELSE y

on_order_canceled(x) ==
    IF all_orders_done(x)
    THEN IF x.pending_open THEN [x EXCEPT !.pending_open = FALSE]
         ELSE IF x.pending_close THEN [x EXCEPT !.pending_close = FALSE]
         ELSE x
    ELSE x

on_order_invalid(x) ==
    IF all_orders_done(x)
    THEN IF x.pending_open THEN [x EXCEPT !.pending_open = FALSE]
         ELSE IF x.pending_close THEN [x EXCEPT !.pending_close = FALSE]
         ELSE x
    ELSE x

\* the platform changes the status of order id, the holdings on a fill, and
\* delivers the event to on_order_event; p selects the fill price
\* the entry of log.fills for the FILLED event of order id: x is the state
\* on_order_filled started from, z the state it returned
OpenOrders(x, closing) ==
    {i \in 1..Len(x.orders) : x.orders[i].status = "Submitted" /\ x.orders[i].closing = closing}

UnfilledTickets(x) ==
    {i \in 1..Len(x.order_tickets) : x.orders[x.order_tickets[i]].status # "Filled"}

Fill(x, z, id) ==
    [id |-> id, closing |-> x.orders[id].closing,
     tracked |-> \E i \in 1..Len(x.order_tickets) : x.order_tickets[i] = id,
     spread_is_open |-> x.spread_is_open, pending_open |-> x.pending_open,
     pending_close |-> x.pending_close,
     unfilled_tickets |-> Cardinality(UnfilledTickets(x)),
     open_closing |-> Cardinality(OpenOrders(x, TRUE)),
     open_other_leg |-> Cardinality({i \in OpenOrders(x, TRUE) :
                                        x.orders[i].symbol # x.orders[id].symbol}),
     spread_is_open_after |-> z.spread_is_open,
     pending_open_after |-> z.pending_open,
     pending_close_after |-> z.pending_close,
     details_reset |-> z.current_spread_details = NoDetails]

Canceled(x, z, id, status) ==
    [z EXCEPT !.log.cancel =
        [status |-> status, closing |-> x.orders[id].closing,
         spread_is_open |-> x.spread_is_open, pending_open |-> x.pending_open,
         pending_close |-> x.pending_close,
         all_done |-> TicketsAll(x, {"Filled", "Canceled", "Invalid"})]]

on_order_event(x, id, status, p) ==
    LET o == x.orders[id]
        y == [x EXCEPT !.orders[id].status = status]
    IN  IF status = "Filled"
        THEN With([y EXCEPT !.portfolio[o.symbol] = @ + o.quantity], LAMBDA y1 :
             With(on_order_filled(y1, id, FillPrice(o.symbol, o.quantity, p), o.quantity),
                  LAMBDA z : [z EXCEPT !.log.fills = Append(@, Fill(y1, z, id))]))
        ELSE IF status = "Canceled" THEN Canceled(y, on_order_canceled(y), id, status)
        ELSE Canceled(y, on_order_invalid(y), id, status)

(***************************************************************************)
(* Order submission.  A limit order is only registered; a market order     *)
(* may be filled, and its event delivered, before the submitting call      *)
(* returns: sync is "none" or "all".                                       *)
(***************************************************************************)
Submit(x, sym, qty, closing) ==
    [x EXCEPT !.orders = Append(@, [symbol |-> sym, quantity |-> qty,
                                    status |-> "Submitted", closing |-> closing]),
              !.log.submitted = @ + 1]

\* an opening order
Register(x, sym, qty) == Submit(x, sym, qty, FALSE)

\* a closing order; it is a resubmission when pending_close is True and a
\* closing order of the symbol is still open
Resubmits(x, sym) ==
    /\ x.pending_close
    /\ \E i \in OpenOrders(x, TRUE) : x.orders[i].symbol = sym

CloseOrder(x, sym, qty) ==
    Submit(IF Resubmits(x, sym) THEN [x EXCEPT !.log.resubmitted = @ + 1] ELSE x,
           sym, qty, TRUE)

FillsNow(sync) == sync = "all"

MarketOrder(x, sym, qty, sync, p) ==
    IF FillsNow(sync)
    THEN on_order_event(CloseOrder(x, sym, qty), Len(x.orders) + 1, "Filled", p)
    ELSE CloseOrder(x, sym, qty)

\* sell(bull_put_spread(short_strike, long_strike), 1): buys back the short
\* strike and sells the long strike; both tickets exist before a leg fills
SellStrategy(x, short_strike, long_strike, sync, p) ==
    With(CloseOrder(CloseOrder(x, short_strike, 1), long_strike, -1), LAMBDA y :
        IF FillsNow(sync)
        THEN With(on_order_event(y, Len(y.orders) - 1, "Filled", p), LAMBDA z :
                 on_order_event(z, Len(z.orders), "Filled", p))
        ELSE y)

(***************************************************************************)
(* Closing.  how is what the platform does with the combo orders of this   *)
(* callback: "details" (sell succeeds), "holdings" (the sell from stored   *)
(* details places nothing, the sell from holdings succeeds), "force" (no   *)
(* sell places an order) or "exception" (reading the chain raises).        *)
(***************************************************************************)
Traced(x, strategy, n) ==
    [x EXCEPT !.log.trace = Append(@, [strategy |-> strategy, placed |-> n])]

\* the tickets of the two orders submitted last
LastTwo(x) == <<Len(x.orders) - 1, Len(x.orders)>>

\* returns the record [x, ret]
try_close_with_current_details(x, option_chain, how, sync, p) ==
    LET d == x.current_spread_details
    IN  IF d.short_strike = None \/ d.long_strike = None \/ d.expiry = None
        THEN [x |-> Traced(x, "details", 0), ret |-> FALSE]
        ELSE IF option_chain = <<>>
        THEN [x |-> Traced(x, "details", 0), ret |-> FALSE]
        ELSE IF how # "details"
        THEN [x |-> Traced(x, "details", 0), ret |-> FALSE]
        ELSE With(SellStrategy(x, d.short_strike, d.long_strike, sync, p), LAMBDA y :
                 [x |-> Traced([y EXCEPT !.order_tickets = LastTwo(y),
                                         !.pending_close = TRUE], "details", 2),
                  ret |-> TRUE])

try_close_with_holdings(x, how, sync, p) ==
    LET option_positions == {k \in Syms : x.portfolio[k] # 0}
        shorts == {k \in option_positions : x.portfolio[k] < 0}
        longs == {k \in option_positions : x.portfolio[k] > 0}
    IN  IF Cardinality(option_positions) # 2
        THEN [x |-> Traced(x, "holdings", 0), ret |-> FALSE]
        ELSE IF shorts = {} \/ longs = {}
        THEN [x |-> Traced(x, "holdings", 0), ret |-> FALSE]
        ELSE LET short_strike == CHOOSE k \in shorts : TRUE
                 long_strike == CHOOSE k \in longs : TRUE
             IN  IF short_strike <= long_strike
                 THEN [x |-> Traced(x, "holdings", 0), ret |-> FALSE]
                 ELSE IF how \notin {"details", "holdings"}
                 THEN [x |-> Traced(x, "holdings", 0), ret |-> FALSE]
                 ELSE With(SellStrategy(x, short_strike, long_strike, sync, p), LAMBDA y :
                          [x |-> Traced([y EXCEPT !.order_tickets = LastTwo(y),
                                                  !.pending_close = TRUE],
                                        "holdings", 2),
                           ret |-> TRUE])

\* the loop over the holdings: one market order per option position held
\* when its turn comes
RECURSIVE Liquidate(_, _, _, _)
Liquidate(x, i, sync, p) ==
    IF i > Len(SymSeq) THEN x
    ELSE IF x.portfolio[SymSeq[i]] = 0 THEN Liquidate(x, i + 1, sync, p)
    ELSE With(MarketOrder(x, SymSeq[i], 0 - x.portfolio[SymSeq[i]], sync, p), LAMBDA y :
             Liquidate(y, i + 1, sync, p))

force_close_positions_unflagged(x, sync, p) ==
    With(Liquidate(x, 1, sync, p), LAMBDA y :
        LET n == y.log.submitted - x.log.submitted
        IN  IF n = 0
            THEN [x |-> Traced(ClearFlags(y), "force", 0), ret |-> FALSE]
            ELSE [x |-> Traced(y, "force", n), ret |-> TRUE])

force_close_positions(x, sync, p) ==
    With(Liquidate(x, 1, sync, p), LAMBDA y :
        LET n == y.log.submitted - x.log.submitted
        IN  IF n = 0
            THEN [x |-> Traced(ClearFlags(y), "force", 0), ret |-> FALSE]
            ELSE [x |-> Traced([y EXCEPT !.pending_close = TRUE], "force", n),
                  ret |-> TRUE])

CloseStrategies_forcefirst(x, option_chain, how, sync, p) ==
    force_close_positions(Traced(x, "details", 0), sync, p)

CloseStrategies(x, option_chain, how, sync, p) ==
    IF how = "exception"
    THEN force_close_positions(Traced(x, "exception", 0), sync, p)
    ELSE With(try_close_with_current_details(x, option_chain, how, sync, p), LAMBDA s1 :
             IF s1.ret THEN s1
             ELSE With(try_close_with_holdings(s1.x, how, sync, p), LAMBDA s2 :
                      IF s2.ret THEN s2
                      ELSE force_close_positions(s2.x, sync, p)))

close_spread_position(x, option_chain, how, sync, p) ==
    LET pre == [x EXCEPT !.log.close.invoked = TRUE,
                         !.log.close.spread_is_open = x.spread_is_open,
                         !.log.close.pending_close = x.pending_close,
                         !.log.trace = <<>>]
    IN  With(IF ~x.spread_is_open \/ x.pending_close THEN [x |-> pre, ret |-> FALSE]
             ELSE CloseStrategies(pre, option_chain, how, sync, p), LAMBDA r :
            [x |-> [r.x EXCEPT !.log.close.ret = Bool(r.ret),
                               !.log.close.trace = r.x.log.trace,
                               !.log.close.pending_close_after = r.x.pending_close],
             ret |-> r.ret])

(***************************************************************************)
(* Risk monitoring.                                                        *)
(***************************************************************************)
TodayPuts(option_chain, today) ==
    LET todayput(c) == IsTodayPut(c, today) IN Filter(option_chain, todayput)

PutsAt(put_contracts, strike) ==
    LET at(c) == Abs(c.strike - strike) < 2 IN Filter(put_contracts, at)

\* line 908: buy back the short put at its ask, sell the long put at its bid
DebitToClose_atbid(short_put, long_put) == short_put.bid - long_put.ask
DebitToClose(short_put, long_put) == short_put.ask - long_put.bid

calculate_current_spread_value(x, option_chain, today) ==
    LET d == x.current_spread_details
    IN  IF option_chain = <<>> THEN None
        ELSE IF d.short_strike = None \/ d.long_strike = None THEN None
        ELSE With(TodayPuts(option_chain, today), LAMBDA put_contracts :
                 IF put_contracts = <<>> THEN None
                 ELSE With(<<PutsAt(put_contracts, d.short_strike),
                             PutsAt(put_contracts, d.long_strike)>>, LAMBDA legs :
                          IF legs[1] = <<>> \/ legs[2] = <<>> THEN None
                          ELSE DebitToClose(legs[1][1], legs[2][1])))

StopLossReached_strict(current_debit, initial_credit) ==
    current_debit > initial_credit * stop_loss_multiple

StopLossReached(current_debit, initial_credit) ==
    current_debit >= initial_credit * stop_loss_multiple

check_stop_loss(x, option_chain, today, how, sync, p) ==
    LET initial_credit == x.current_spread_details.initial_credit
    IN  IF ~x.spread_is_open \/ x.pending_close THEN x
        ELSE IF initial_credit = None THEN x
        ELSE With(calculate_current_spread_value(x, option_chain, today),
                  LAMBDA current_debit :
                 IF current_debit = None THEN x
                 ELSE IF StopLossReached(current_debit, initial_credit)
                 THEN close_spread_position(x, option_chain, how, sync, p).x
                 ELSE x)

monitor_positions(x, option_chain, today, how, sync, p) ==
    IF ~x.spread_is_open THEN x
    ELSE check_stop_loss(x, option_chain, today, how, sync, p)

(***************************************************************************)
(* Opening.  found is what the platform's chain lookup gives to            *)
(* place_spread_order: "ok", "missing" (a strike is not in the chain) or   *)
(* "exception".                                                            *)
(***************************************************************************)
\* the credit asked for: 95% of the theoretical credit
TargetCredit_full(net_credit) == net_credit

TargetCredit(net_credit) == (net_credit * 95) \div 100

Blocked_never(x) == FALSE

Blocked(x) == x.spread_is_open \/ x.pending_open

place_spread_order(x, sel, current_date, found) ==
    With(reset_state(x, current_date), LAMBDA y :
        LET g == [y EXCEPT !.log.guard = [reached |-> TRUE,
                                          spread_is_open |-> y.spread_is_open,
                                          pending_open |-> y.pending_open,
                                          details |-> y.current_spread_details,
                                          ret |-> "False"]]
            net_credit == sel.max_profit \div 100
            short_strike == sel.breakeven + net_credit
            width == (sel.max_loss + sel.max_profit) \div 100
            long_strike == short_strike - width
            target_net_credit == TargetCredit(net_credit)
        IN  IF Blocked(y) THEN g
            ELSE IF found = "missing" THEN g
            ELSE IF found = "exception" THEN [g EXCEPT !.pending_open = FALSE]
            ELSE With(Register(Register(g, short_strike, -1), long_strike, 1), LAMBDA z :
                     [z EXCEPT !.order_tickets = LastTwo(z),
                               !.pending_open = TRUE,
                               !.current_spread_details =
                                   [short_strike |-> short_strike,
                                    long_strike |-> long_strike,
                                    initial_credit |-> target_net_credit,
                                    max_profit |-> sel.max_profit,
                                    max_loss |-> sel.max_loss,
                                    breakeven |-> sel.breakeven,
                                    expiry |-> current_date],
                               !.log.guard.ret = "True"]))

(***************************************************************************)
(* State.                                                                  *)
(***************************************************************************)
VARIABLES
    \* SpreadSelector.select_bull_put_spread: arguments, position, result
    sel_chain, sel_widths, sel_pc, sel_result,
    \* bull-credit-spread: flags of the algorithm, holdings of the portfolio,
    \* orders not yet filled, number of submitting calls, and what the last
    \* bull_on_data call was given and opened
    b_spread_open, b_pending_open, b_pending_close, b_holdings, b_open_orders,
    b_nsubmits, b_call,
    \* v2: the fields of OrderExecutor
    spread_is_open, pending_open, pending_close, last_reset_date,
    current_spread_details, order_tickets, active_spread_orders,
    \* v2: the orders and the option holdings kept by the platform
    orders, portfolio,
    \* v2: the fields of the algorithm, the date and the next scheduled callback
    option_chain, chains_loaded_today, day, phase,
    \* v2: the log of the last callback
    log

selvars == <<sel_chain, sel_widths, sel_pc, sel_result>>
bullvars == <<b_spread_open, b_pending_open, b_pending_close, b_holdings,
              b_open_orders, b_nsubmits, b_call>>
v2vars == <<spread_is_open, pending_open, pending_close, last_reset_date,
            current_spread_details, order_tickets, active_spread_orders,
            orders, portfolio, option_chain, chains_loaded_today, day, phase, log>>
VARIABLES
    \* UpgradedYellowAlligator: the fields of the algorithm, the orders and the
    \* option holdings kept by the platform, the next scheduled callback, and
    \* the last callback with the fields it started from
    ya_self, ya_orders, ya_portfolio, ya_phase, ya_log,
    \* bear-credit-spread: the same, and the date
    br_self, br_orders, br_portfolio, br_phase, br_day, br_log,
    \* calculate_current_spread_value: the chain and the flags it is called
    \* with, and what it returned
    cv_in, cv_out

yavars == <<ya_self, ya_orders, ya_portfolio, ya_phase, ya_log>>
bearvars == <<br_self, br_orders, br_portfolio, br_phase, br_day, br_log>>
calcvars == <<cv_in, cv_out>>
VARIABLES
    \* original-main.py: the fields of the algorithm, the orders and the option
    \* holdings kept by the platform, the next scheduled callback, whether a
    \* runtime error has stopped the algorithm, and the log of the last callback
    om_self, om_orders, om_portfolio, om_phase, om_halted, om_log

origvars == <<om_self, om_orders, om_portfolio, om_phase, om_halted, om_log>>
vars == <<selvars, bullvars, v2vars, yavars, bearvars, calcvars, origvars>>

SelIdle ==
    /\ sel_chain = <<>>
    /\ sel_widths = <<>>
    /\ sel_pc = "idle"
    /\ sel_result = NoSpread

\* name is the last callback; opens and closes count the try_open_spread and
\* try_close_spread calls made since a scheduled callback last set the flag
NoCall == [slice |-> NoChain, tried |-> FALSE, opened |-> <<>>,
           name |-> "none", opens |-> 0, closes |-> 0]

BullInit ==
    /\ b_spread_open = FALSE
    /\ b_pending_open = FALSE
    /\ b_pending_close = FALSE
    /\ b_holdings = [l \in BullLegs |-> 0]
    /\ b_open_orders = <<>>
    /\ b_nsubmits = 0
    /\ b_call = NoCall

V2Init ==
    /\ spread_is_open = FALSE
    /\ pending_open = FALSE
    /\ pending_close = FALSE
    /\ last_reset_date = None
    /\ current_spread_details = NoDetails
    /\ order_tickets = <<>>
    /\ active_spread_orders = <<>>
    /\ orders = <<>>
    /\ portfolio = [k \in Syms |-> 0]
    /\ option_chain = <<>>
    /\ chains_loaded_today = FALSE
    /\ day = 1
    /\ phase = 0
    /\ log = NewLog("initialize")

\* Basic_Credit_SpreadAlgorithm.initialize, also what reset_spread_state leaves
YANew ==
    [spread_is_open |-> FALSE, pending_open |-> FALSE, pending_close |-> FALSE,
     opened_short_put_symbol |-> None, opened_long_put_symbol |-> None,
     initial_credit |-> None, stop_loss_target_debit |-> None,
     profit_target_value_debit |-> None,
     opening_order_tickets |-> <<>>, closing_order_tickets |-> <<>>]

YASyms == {180000, 190000}

YAInit ==
    /\ ya_self = YANew
    /\ ya_orders = <<>>
    /\ ya_portfolio = [k \in YASyms |-> 0]
    /\ ya_phase = 0
    /\ ya_log = [name |-> "initialize", id |-> None, status |-> "None",
                 before |-> YANew]

\* BearCreditSpreadAlgorithm.initialize
BearNew ==
    [spread_is_open |-> FALSE, pending_open_trade_flag |-> FALSE,
     pending_close_trade_flag |-> FALSE, opening_order_ids |-> <<>>,
     filled_short_leg_symbol |-> None, filled_long_leg_symbol |-> None,
     trade_close_flagged |-> FALSE]

MaxBearDays == 2
MaxBearOrders == 4

\* an option contract and the number that names it as a symbol
BearContract(right, expiry, strike) ==
    [symbol |-> expiry * 1000 + strike + (IF right = "put" THEN 500 ELSE 0),
     right |-> right, expiry |-> expiry, strike |-> strike]

\* the chains a slice of day d may carry; <<>> is a slice without chain
BearChains(d) ==
    { <<>>,
      <<BearContract("call", d, 103), BearContract("put", d, 101),
        BearContract("call", d, 101), BearContract("call", d + 1, 101),
        BearContract("call", d, 102)>>,
      <<BearContract("call", d, 102), BearContract("call", d + 1, 103),
        BearContract("put", d, 103)>>,
      <<BearContract("call", d, 101), BearContract("call", d, 100)>> }

\* the prices of the underlying
BearPrices == {100, 101, 102}

BearContracts ==
    UNION {{c[i] : i \in 1..Len(c)} : c \in UNION {BearChains(d) : d \in 1..MaxBearDays}}

BearSyms == {c.symbol : c \in BearContracts}

\* the log of a callback: the fields and the holdings it started from, the
\* slice it was given, the opening orders and the liquidations it submitted,
\* and the holdings at the last schedule_close_trades of the day
BearLog(name) ==
    [name |-> name, id |-> None, status |-> "None",
     chain |-> <<>>, price |-> 0, today |-> 0,
     before |-> br_self, held |-> br_portfolio,
     opened |-> <<>>, liquidated |-> <<>>, after_close |-> FALSE,
     held_at_close |-> br_log.held_at_close]

BearInit ==
    /\ br_self = BearNew
    /\ br_orders = <<>>
    /\ br_portfolio = [k \in BearSyms |-> 0]
    /\ br_phase = 0
    /\ br_day = 1
    /\ br_log = [name |-> "initialize", id |-> None, status |-> "None",
                 chain |-> <<>>, price |-> 0, today |-> 0,
                 before |-> BearNew, held |-> [k \in BearSyms |-> 0],
                 opened |-> <<>>, liquidated |-> <<>>, after_close |-> FALSE,
                 held_at_close |-> [k \in BearSyms |-> 0]]

\* original-main.py, initialize (lines 54-66).  short_put_fill_price and
\* long_put_fill_price are attributes on_order_event creates: None is "not
\* set".  stop_loss_target_debit and profit_target_value_debit are written and
\* never read, and are left out.
OrigNew ==
    [spread_is_open |-> FALSE, pending_open |-> FALSE, pending_close |-> FALSE,
     opened_short_put_symbol |-> None, opened_long_put_symbol |-> None,
     initial_credit |-> None, expected_credit |-> None,
     short_put_fill_price |-> None, long_put_fill_price |-> None,
     opening_order_tickets |-> <<>>, closing_order_tickets |-> <<>>]

\* the symbol of the SPY put of an expiry and a strike
OrigSym(expiry, strike) == expiry * 1000 + strike

\* the SPY options of the model, in the order of the portfolio
OrigSymSeq == <<OrigSym(Today, 385), OrigSym(Today, 395), OrigSym(Today, 400),
                OrigSym(Today + 1, 395), OrigSym(Today + 1, 400)>>

OrigSyms == {OrigSymSeq[i] : i \in 1..Len(OrigSymSeq)}

OrigFlat == [k \in OrigSyms |-> 0]

OrigInit ==
    /\ om_self = OrigNew
    /\ om_orders = <<>>
    /\ om_portfolio = OrigFlat
    /\ om_phase = 0
    /\ om_halted = FALSE
    /\ om_log = [name |-> "initialize", before |-> OrigNew, held |-> OrigFlat,
                 norders |-> 0]

CalcIdle ==
    /\ cv_in = [chain |-> <<>>, spread_is_open |-> FALSE, pending_open |-> FALSE,
                pending_close |-> FALSE]
    /\ cv_out = [done |-> FALSE, ret |-> None]

(***************************************************************************)
(* Specification of the spread selector: a chain and a list of width       *)
(* fallbacks are chosen, then the selector runs on them.                   *)
(***************************************************************************)
SelInit ==
    /\ sel_chain \in Chains
    /\ sel_widths \in WidthFallbackLists
    /\ sel_pc = "input"
    /\ sel_result = NoSpread
    /\ BullInit
    /\ V2Init
    /\ YAInit
    /\ BearInit
    /\ CalcIdle
    /\ OrigInit

SelSelect ==
    /\ sel_pc = "input"
    /\ sel_result' = select_bull_put_spread(sel_chain, Today, sel_widths)
    /\ sel_pc' = "done"
    /\ UNCHANGED <<sel_chain, sel_widths, bullvars, v2vars, yavars, bearvars, calcvars, origvars>>

SelNext == SelSelect

SpecSel == SelInit /\ [][SelNext]_vars

(***************************************************************************)
(* Specification of bull-credit-spread/main.py: the scheduled callbacks,   *)
(* the data slices and the fills of the platform, in any order.            *)
(***************************************************************************)
\* an order is a set of <<leg, quantity>> changes applied together when it fills
Apply(holdings, order) ==
    [l \in BullLegs |->
        IF \E x \in order : x[1] = l
        THEN holdings[l] + (CHOOSE x \in order : x[1] = l)[2]
        ELSE holdings[l]]

RECURSIVE ApplyAll(_, _)
ApplyAll(holdings, os) ==
    IF os = <<>> THEN holdings
    ELSE ApplyAll(Apply(holdings, Head(os)), Tail(os))

\* buy(bull_put_spread, 1): short the higher strike, long the lower strike
BuySpread(sp) == {<<<<sp.expiry, sp.short_strike>>, -1>>, <<<<sp.expiry, sp.long_strike>>, 1>>}
\* sell(bull_put_spread, 1)
SellSpread(sp) == {<<<<sp.expiry, sp.short_strike>>, 1>>, <<<<sp.expiry, sp.long_strike>>, -1>>}

bull_open_trades ==
    /\ b_pending_open' = IF b_spread_open THEN b_pending_open ELSE TRUE
    /\ b_call' = [b_call EXCEPT !.name = "open_trades",
                                !.opens = IF b_spread_open THEN @ ELSE 0]
    /\ UNCHANGED <<b_spread_open, b_pending_close, b_holdings, b_open_orders,
                   b_nsubmits, selvars, v2vars, yavars, bearvars, calcvars, origvars>>

bull_close_positions ==
    /\ b_pending_close' = IF ~b_spread_open THEN b_pending_close ELSE TRUE
    /\ b_call' = [b_call EXCEPT !.name = "close_positions",
                                !.closes = IF ~b_spread_open THEN @ ELSE 0]
    /\ UNCHANGED <<b_spread_open, b_pending_open, b_holdings, b_open_orders,
                   b_nsubmits, selvars, v2vars, yavars, bearvars, calcvars, origvars>>

NoLeg == <<>>

\* the orders try_close_spread submits on the given holdings: the combo when
\* both legs are identified (strategy_ok), else one order per leg
try_close_spread(holdings, short, long, strategy_ok) ==
    LET invested == {l \in BullLegs : holdings[l] # 0}
        closeleg(l) == {<<l, 0 - holdings[l]>>}
    IN  IF invested = {} THEN <<>>
        ELSE IF short # NoLeg /\ long # NoLeg /\ short[1] = long[1]
        THEN IF strategy_ok
             THEN <<SellSpread([short_strike |-> short[2], long_strike |-> long[2],
                                expiry |-> short[1]])>>
             ELSE <<closeleg(short), closeleg(long)>>
        ELSE LET RECURSIVE each(_)
                 each(S) == IF S = {} THEN <<>>
                            ELSE LET l == CHOOSE x \in S : TRUE
                                 IN  <<closeleg(l)>> \o each(S \ {l})
             IN  each(invested)

\* the flag after the attempt on_data made for it
PendingAfter_kept(pending) == pending

PendingAfter(pending) == FALSE

Min2(a, b) == IF a < b THEN a ELSE b

\* try_open_spread on each slice, at the current date
TryOpenToday == [slice \in BullSlices |-> try_open_spread(slice, Today)]

\* bull_on_data: one try_open_spread when pending_open, then one try_close_spread
\* when pending_close; order_ok is whether the platform accepts the opening
\* order, sync whether the orders of this call fill before it returns
bull_on_data(slice, order_ok, strategy_ok, sync) ==
    LET found == IF b_pending_open THEN TryOpenToday[slice] ELSE <<>>
        opened == IF order_ok THEN found ELSE <<>>
        openorders == [i \in 1..Len(opened) |-> BuySpread(opened[i])]
        h1 == IF sync THEN ApplyAll(b_holdings, openorders) ELSE b_holdings
        spread_open1 == IF opened # <<>> THEN TRUE ELSE b_spread_open
        shorts == {l \in BullLegs : h1[l] < 0}
        longs == {l \in BullLegs : h1[l] > 0}
    IN
      /\ b_pending_open \/ b_pending_close
      /\ b_nsubmits < MaxBullOrders
      \* inputs that are not looked at are not enumerated
      /\ ~b_pending_open => slice = NoChain
      /\ found = <<>> => order_ok
      /\ ~b_pending_close => strategy_ok
      /\ \E short \in (IF shorts = {} THEN {NoLeg} ELSE shorts),
            long \in (IF longs = {} THEN {NoLeg} ELSE longs) :
          LET closing == IF b_pending_close
                         THEN try_close_spread(h1, short, long, strategy_ok) ELSE <<>>
              submitted == openorders \o closing
          IN  /\ b_spread_open' = IF b_pending_close THEN FALSE ELSE spread_open1
              /\ b_holdings' = IF sync THEN ApplyAll(h1, closing) ELSE b_holdings
              /\ b_open_orders' = IF sync THEN b_open_orders ELSE b_open_orders \o submitted
              /\ b_nsubmits' = IF submitted = <<>> THEN b_nsubmits ELSE b_nsubmits + 1
      /\ b_pending_open' = PendingAfter(b_pending_open)
      /\ b_pending_close' = FALSE
      /\ b_call' = [slice |-> slice, tried |-> b_pending_open, opened |-> opened,
                    name |-> "on_data",
                    opens |-> IF b_pending_open THEN Min2(b_call.opens + 1, 2)
                              ELSE b_call.opens,
                    closes |-> IF b_pending_close THEN Min2(b_call.closes + 1, 2)
                               ELSE b_call.closes]
      /\ UNCHANGED <<selvars, v2vars, yavars, bearvars, calcvars, origvars>>

BullOnData ==
    \E slice \in BullSlices, order_ok, strategy_ok, sync \in BOOLEAN :
        bull_on_data(slice, order_ok, strategy_ok, sync)

\* the platform fills the oldest open order
BullFill ==
    /\ b_open_orders # <<>>
    /\ b_holdings' = Apply(b_holdings, Head(b_open_orders))
    /\ b_open_orders' = Tail(b_open_orders)
    /\ b_call' = [b_call EXCEPT !.name = "fill"]
    /\ UNCHANGED <<b_spread_open, b_pending_open, b_pending_close, b_nsubmits,
                   selvars, v2vars, yavars, bearvars, calcvars, origvars>>

BullNext == bull_open_trades \/ bull_close_positions \/ BullOnData \/ BullFill

BullSpecInit == SelIdle /\ BullInit /\ V2Init /\ YAInit /\ BearInit /\ CalcIdle /\ OrigInit

SpecBull == BullSpecInit /\ [][BullNext]_vars

(***************************************************************************)
(* Specification of v2_credit_spread_algo: the scheduled callbacks of a    *)
(* day in their order, with data slices and order events between them.     *)
(***************************************************************************)
X == [spread_is_open |-> spread_is_open, pending_open |-> pending_open,
      pending_close |-> pending_close, last_reset_date |-> last_reset_date,
      current_spread_details |-> current_spread_details,
      order_tickets |-> order_tickets,
      active_spread_orders |-> active_spread_orders,
      orders |-> orders, portfolio |-> portfolio, log |-> log]

Called(name) == [X EXCEPT !.log = NewLog(name)]

\* the platform's record of an order in a final status that no ticket of the
\* executor refers to is never read again
Forgotten == [symbol |-> 0, quantity |-> 0, status |-> "Done", closing |-> FALSE]

Referred(x, id) == \E i \in 1..Len(x.order_tickets) : x.order_tickets[i] = id

Forget(x) ==
    [id \in 1..Len(x.orders) |->
        IF x.orders[id].status # "Submitted" /\ ~Referred(x, id)
        THEN Forgotten ELSE x.orders[id]]

Commit(x) ==
    /\ Len(x.orders) <= MaxOrders
    /\ spread_is_open' = x.spread_is_open
    /\ pending_open' = x.pending_open
    /\ pending_close' = x.pending_close
    /\ last_reset_date' = x.last_reset_date
    /\ current_spread_details' = x.current_spread_details
    /\ order_tickets' = x.order_tickets
    /\ active_spread_orders' = x.active_spread_orders
    /\ orders' = Forget(x)
    /\ portfolio' = x.portfolio
    /\ log' = x.log

\* a market order filled within the callback has a choice of price levels
\* only when it sells a holding of a symbol with several levels
Levelled(sync) ==
    /\ sync = "all"
    /\ \E k \in Syms : portfolio[k] > 0 /\ Len(FillPricesOf(k, 0 - portfolio[k])) > 1

Hows == {"details", "holdings", "force", "exception"}
Syncs == {"none", "all"}

load_option_chains ==
    /\ phase = 0
    /\ phase' = 1
    /\ chains_loaded_today' = FALSE
    /\ option_chain' = <<>>
    /\ \E x \in {reset_state(Called("load_option_chains"), day)} : Commit(x)
    /\ UNCHANGED <<day, selvars, bullvars, yavars, bearvars, calcvars, origvars>>

\* get_option_chains(None) is None: the fallback loads nothing
load_option_chains_fallback ==
    /\ phase = 1
    /\ phase' = 2
    /\ \E x \in {Called("load_option_chains_fallback")} : Commit(x)
    /\ UNCHANGED <<option_chain, chains_loaded_today, day, selvars, bullvars, yavars, bearvars, calcvars, origvars>>

open_trades(found) ==
    /\ phase = 2
    /\ phase' = 3
    /\ \E sel \in {select_bull_put_spread(option_chain, day, DefaultWidthFallbacks)} :
          LET places == /\ chains_loaded_today
                        /\ option_chain # <<>>
                        /\ day \in ExpiriesOf(option_chain)
                        /\ Found(sel)
          IN  /\ ~places => found = "ok"
              /\ \E x \in {IF places
                           THEN place_spread_order(Called("open_trades"), sel, day, found)
                           ELSE Called("open_trades")} : Commit(x)
    /\ UNCHANGED <<option_chain, chains_loaded_today, day, selvars, bullvars, yavars, bearvars, calcvars, origvars>>

\* the standard close of close_positions and its last resort
StandardClose(x, chain, how, sync, p) ==
    With(close_spread_position([x EXCEPT !.spread_is_open = TRUE,
                                         !.log.had_positions = TRUE],
                               chain, how, sync, p), LAMBDA r :
        IF ~r.ret THEN force_close_positions(r.x, sync, p).x ELSE r.x)

close_positions(how, sync, p) ==
    /\ phase = 3
    /\ phase' = 4
    /\ ~HasPositions(X) => (how = "details" /\ sync = "none")
    /\ ~Levelled(sync) => p = 1
    /\ \E x1 \in {daily_state_verification(Called("close_positions"), day)} :
       \E x3 \in {IF HasPositions(X) THEN StandardClose(x1, option_chain, how, sync, p)
                  ELSE x1} :
       \E x4 \in {IF HasPositions(x3) THEN force_close_positions(x3, sync, p).x
                  ELSE x3} :
          Commit(x4)
    /\ UNCHANGED <<option_chain, chains_loaded_today, day, selvars, bullvars, yavars, bearvars, calcvars, origvars>>

\* the snapshot of what risk monitoring looks at
\* debit is the value of the chain given to monitor_positions, tick_debit
\* the value of the chain that came with the slice
Monitored(x, chain, slice, today) ==
    [spread_is_open |-> x.spread_is_open,
     pending_open |-> x.pending_open,
     pending_close |-> x.pending_close,
     initial_credit |-> x.current_spread_details.initial_credit,
     max_profit |-> x.current_spread_details.max_profit,
     debit |-> calculate_current_spread_value(x, chain, today),
     tick_debit |-> calculate_current_spread_value(x, slice, today)]

on_data(slice) ==
    LET loads == ~chains_loaded_today /\ slice # <<>>
        chain == IF loads THEN slice ELSE option_chain
    IN  /\ phase >= 1
        /\ ~chains_loaded_today => slice \in V2Slices(day)
        /\ chains_loaded_today => slice \in {<<>>, MovedChain(day)}
        /\ option_chain' = chain
        /\ chains_loaded_today' = (chains_loaded_today \/ loads)
        /\ \E x1 \in {reset_state(Called("on_data"), day)} :
           \E x2 \in {[x1 EXCEPT !.log.mon = Monitored(x1, chain, slice, day)]} :
           /\ slice = MovedChain(day) => x2.log.mon.debit # None
           /\ \E how \in IF x2.log.mon.debit = None THEN {"details"} ELSE Hows,
                 sync \in IF x2.log.mon.debit = None THEN {"none"} ELSE Syncs,
                 p \in PriceLevels :
                 /\ ~Levelled(sync) => p = 1
                 /\ \E x3 \in {IF chain # <<>> /\ x1.spread_is_open
                               THEN monitor_positions(x2, chain, day, how, sync, p)
                               ELSE x2} :
                       /\ ~x3.log.close.invoked => (how = "details" /\ sync = "none")
                       /\ Commit(x3)
        /\ UNCHANGED <<day, phase, selvars, bullvars, yavars, bearvars, calcvars, origvars>>

\* the platform fills, cancels or rejects an open order
OrderEvent(id, status, p) ==
    /\ orders[id].status = "Submitted"
    /\ status # "Filled" => p = 1
    /\ p <= Len(FillPricesOf(orders[id].symbol, orders[id].quantity))
    /\ \E x \in {on_order_event(Called("on_order_event"), id, status, p)} : Commit(x)
    /\ UNCHANGED <<option_chain, chains_loaded_today, day, phase, selvars, bullvars, yavars, bearvars, calcvars, origvars>>

\* the date changes after the last callback of the day, when no order is
\* open any more; settled is whether the platform has removed the expired
\* options from the holdings before the next session (reset_state provides
\* for holdings found at the start of a day)
NewDay(settled) ==
    /\ phase = 4
    /\ day < MaxDays
    /\ \A i \in 1..Len(orders) : orders[i].status # "Submitted"
    /\ ~HasPositions(X) => settled
    /\ day' = day + 1
    /\ phase' = 0
    /\ \E x \in {[Called("new_day") EXCEPT
                     !.portfolio = IF settled THEN [k \in Syms |-> 0] ELSE @]} :
          Commit(x)
    /\ UNCHANGED <<option_chain, chains_loaded_today, selvars, bullvars, yavars, bearvars, calcvars, origvars>>

V2OpenTrades == \E found \in {"ok", "missing", "exception"} : open_trades(found)
V2ClosePositions == \E how \in Hows, sync \in Syncs, p \in PriceLevels : close_positions(how, sync, p)
V2OnData == \E slice \in V2Ticks(day) : on_data(slice)
V2OrderEvent == \E id \in 1..Len(orders), status \in {"Filled", "Canceled", "Invalid"},
                   p \in PriceLevels : OrderEvent(id, status, p)

V2NewDay == \E settled \in BOOLEAN : NewDay(settled)

V2Next ==
    \/ load_option_chains
    \/ load_option_chains_fallback
    \/ V2OpenTrades
    \/ V2ClosePositions
    \/ V2OnData
    \/ V2OrderEvent
    \/ V2NewDay

V2SpecInit == SelIdle /\ BullInit /\ V2Init /\ YAInit /\ BearInit /\ CalcIdle /\ OrigInit

SpecV2 == V2SpecInit /\ [][V2Next]_vars

\* the same callbacks when every order the algorithm submits is filled: the
\* platform fills each open order in the end, and data slices keep arriving
V2Fill == \E id \in 1..Len(orders), p \in PriceLevels : OrderEvent(id, "Filled", p)

V2FillNext ==
    \/ load_option_chains
    \/ load_option_chains_fallback
    \/ V2OpenTrades
    \/ V2ClosePositions
    \/ V2OnData
    \/ V2Fill
    \/ V2NewDay

SpecV2Fill ==
    V2SpecInit /\ [][V2FillNext]_vars /\ WF_vars(V2Fill) /\ WF_vars(V2OnData)

(***************************************************************************)
(* Properties of v2_credit_spread_algo, stated on the log of the last      *)
(* callback.                                                               *)
(***************************************************************************)
\* C1: when close_positions starts with an option position held, then at its
\* return at least one order was submitted in the call and pending_close is
\* True
C1_ClosePositionsSubmits ==
    (log.name = "close_positions" /\ log.had_positions)
        => (log.submitted >= 1 /\ pending_close)

\* close_positions found positions while a close was already pending: the
\* standard close was refused and the legs were liquidated
C1_Witness ==
    /\ log.name = "close_positions"
    /\ log.had_positions
    /\ log.close.invoked
    /\ log.close.pending_close
    /\ log.close.ret = "False"
    /\ log.submitted >= 1
    /\ pending_close

\* what risk monitoring of an on_data call finds: an open spread, no close
\* pending, a known initial credit and a computable debit to close
Monitors ==
    /\ log.name = "on_data"
    /\ log.mon.spread_is_open
    /\ ~log.mon.pending_close
    /\ log.mon.initial_credit # None
    /\ log.mon.debit # None

\* C2: in such an on_data call close_spread_position is invoked exactly when
\* the debit is at least twice the initial credit; below it the call submits
\* no order and leaves the three flags as they were
C2_StopLossAtTwiceCredit ==
    Monitors =>
        /\ log.close.invoked <=> (log.mon.debit >= 2 * log.mon.initial_credit)
        /\ log.mon.debit < 2 * log.mon.initial_credit =>
               /\ log.submitted = 0
               /\ spread_is_open = log.mon.spread_is_open
               /\ pending_open = log.mon.pending_open
               /\ pending_close = log.mon.pending_close

\* the stop-loss closed a spread
C2_Witness ==
    /\ Monitors
    /\ log.mon.debit >= 2 * log.mon.initial_credit
    /\ log.close.invoked
    /\ log.submitted >= 1

\* the threshold of check_take_profit
TakeProfitReached(initial_credit, current_debit, max_profit) ==
    (initial_credit - current_debit) * 100 * 2 >= max_profit

\* C3: in an on_data call with an open spread and no close pending, when the
\* current profit is at least half of max_profit, close_spread_position is
\* invoked
C3_TakeProfitCloses ==
    (/\ Monitors
     /\ log.mon.max_profit # None
     /\ TakeProfitReached(log.mon.initial_credit, log.mon.debit, log.mon.max_profit))
        => log.close.invoked

\* C4: when place_spread_order finds, after reset_state, spread_is_open or
\* pending_open set, it submits no order, returns False and leaves
\* pending_open, spread_is_open and current_spread_details as they were
C4_NoSecondOpen ==
    (log.guard.reached /\ (log.guard.spread_is_open \/ log.guard.pending_open))
        => /\ log.submitted = 0
           /\ log.guard.ret = "False"
           /\ spread_is_open = log.guard.spread_is_open
           /\ pending_open = log.guard.pending_open
           /\ current_spread_details = log.guard.details

\* place_spread_order was called with a spread open and refused
C4_Witness ==
    /\ log.name = "open_trades"
    /\ log.guard.reached
    /\ log.guard.spread_is_open
    /\ log.guard.ret = "False"
    /\ log.submitted = 0

\* close_spread_position was called with spread_is_open and no close pending
Closing == log.close.invoked /\ log.close.spread_is_open /\ ~log.close.pending_close

\* C10: such a call tries the stored details first, the holdings only after
\* the details placed nothing, and force_close_positions only last, after
\* both combo attempts placed nothing or after an exception; it returns True
\* exactly when an attempt placed an order, and pending_close is True then
C10_CloseStrategyOrder ==
    Closing =>
        LET t == log.close.trace
        IN  /\ t # <<>>
            /\ t[1].strategy \in {"details", "exception"}
            /\ \A i \in 1..Len(t) :
                   /\ t[i].strategy = "details" => i = 1
                   /\ t[i].strategy = "exception" => t[i].placed = 0
                   /\ t[i].strategy = "holdings" =>
                          (i = 2 /\ t[1].strategy = "details" /\ t[1].placed = 0)
                   /\ t[i].strategy = "force" =>
                          /\ i = Len(t)
                          /\ \A j \in 1..(i - 1) : t[j].placed = 0
                          /\ \/ i = 3 /\ t[2].strategy = "holdings"
                             \/ t[i - 1].strategy = "exception"
            /\ log.close.ret = "True" <=> \E i \in 1..Len(t) : t[i].placed >= 1
            /\ log.close.ret = "True" => log.close.pending_close_after

\* both combo attempts placed nothing and the legs were liquidated one by one
C10_Witness ==
    /\ Closing
    /\ Len(log.close.trace) = 3
    /\ log.close.trace[2].strategy = "holdings"
    /\ log.close.trace[3].strategy = "force"
    /\ log.close.trace[3].placed >= 1
    /\ log.close.ret = "True"
    /\ log.close.pending_close_after

\* C12: in an on_data call that compares a debit against the stop-loss
\* threshold and whose slice carries a chain that prices the spread, the
\* debit compared is the one of the chain of that slice
C12_MonitorsTickChain ==
    Monitors /\ log.mon.tick_debit # None => log.mon.debit = log.mon.tick_debit

\* C13: when an on_data call has returned, a portfolio that holds an option
\* position goes with at least one of the three flags, and a portfolio that
\* holds none goes with spread_is_open False
C13_FlagsMatchPortfolio ==
    log.name = "on_data" =>
        /\ (HasPositions(X) => AnyFlag(X))
        /\ (~HasPositions(X) => ~spread_is_open)

\* close_positions has found an option position, and no opening order is
\* open when it returns
HeldAtClose ==
    /\ log.name = "close_positions"
    /\ log.had_positions
    /\ OpenOrders(X, FALSE) = {}

\* no option position is held and no close is open or pending
FlatBook == ~HasPositions(X) /\ ~spread_is_open /\ ~pending_close

\* close_positions is the last scheduled callback of the day
DayOver == phase # 4

C18_NoDuplicateClose == log.resubmitted = 0

\* the entries of log.fills
Fills == {log.fills[i] : i \in 1..Len(log.fills)}

\* C19: a FILLED event clears pending_close through the closing path only
\* when no closing order is still open; in particular the fill of one leg's
\* closing order does not clear it while the closing order of the other leg
\* is open
C19_CloseCompletesWhenAllFilled ==
    \A f \in Fills :
        (/\ ~f.pending_open
         /\ f.pending_close
         /\ ~f.pending_close_after) => f.open_other_leg = 0

\* C20: a FILLED event turns spread_is_open from False to True only when
\* pending_open is True and every ticket of order_tickets is filled; while
\* pending_open is True and a ticket is unfilled, it leaves spread_is_open as
\* it was and pending_open True
C20_OpensOnCompleteFill ==
    \A f \in Fills :
        /\ (~f.spread_is_open /\ f.spread_is_open_after)
               => (f.pending_open /\ f.unfilled_tickets = 0)
        /\ (f.pending_open /\ f.unfilled_tickets > 0)
               => (f.spread_is_open_after = f.spread_is_open /\ f.pending_open_after)

\* the fill of the second opening leg has opened the spread
C20_Witness ==
    /\ log.name = "on_order_event"
    /\ \E f \in Fills :
           /\ ~f.closing
           /\ f.pending_open /\ ~f.spread_is_open
           /\ f.unfilled_tickets = 0
           /\ f.spread_is_open_after /\ ~f.pending_open_after
    /\ spread_is_open /\ ~pending_open
    /\ Len(order_tickets) = 2

\* both opening tickets are filled and both legs are held
OpeningLegsHeld ==
    /\ Len(order_tickets) = 2
    /\ \A i \in 1..2 : /\ orders[order_tickets[i]].status = "Filled"
                        /\ ~orders[order_tickets[i]].closing
                        /\ portfolio[orders[order_tickets[i]].symbol] =
                               orders[order_tickets[i]].quantity

\* C21: when an on_order_event call returns with both opening tickets filled
\* and both legs held, it is not the case that pending_open is True and
\* spread_is_open is False
C21_NoStuckPendingOpen ==
    (log.name = "on_order_event" /\ OpeningLegsHeld) => ~(pending_open /\ ~spread_is_open)

\* the fills of the orders that order_tickets refers to
TicketFills ==
    SelectSeq(active_spread_orders,
              LAMBDA e : \E i \in 1..Len(order_tickets) : order_tickets[i] = e.id)

\* the last order event was a fill that turned spread_is_open from False to
\* True through the opening path
OpenedByFill ==
    /\ log.name = "on_order_event"
    /\ \E f \in Fills : f.pending_open /\ ~f.spread_is_open /\ f.spread_is_open_after

\* C22: when a fill has opened the spread, initial_credit is the fill price
\* of the short leg minus the fill price of the long leg of the opening orders
\* of that spread
C22_RecordedCreditIsActual ==
    OpenedByFill => current_spread_details.initial_credit = 0 - SumFills(TicketFills)

\* C23: when the fill of the last open closing order, a tracked ticket,
\* completes a close and leaves the portfolio flat, _calculate_net_debit is
\* the sum of quantity * fill price over the fills of the closing orders
C23_NetDebitOfClosingFills ==
    (/\ log.name = "on_order_event"
     /\ log.net_debit # None
     /\ \A f \in Fills : f.closing /\ f.tracked /\ f.open_closing = 0
     /\ ~HasPositions(X))
        => log.net_debit = log.closing_debit

\* C24: a reset_state call made when last_reset_date is already the current
\* date changes nothing of the executor
C24_ResetOncePerDate == ~log.reset.changed

\* on_data has called reset_state on a date already recorded, with a holding
\* and no flag set: the reset would have set spread_is_open
C24_Witness ==
    /\ log.name = "on_data"
    /\ log.reset.same_date
    /\ HasPositions(X)
    /\ ~AnyFlag(X)

\* C25: daily_state_verification returns True exactly when an option holding
\* is non-zero; after True spread_is_open is True, after False the three
\* flags are False and every spread detail is None
C25_VerificationOutcome ==
    LET v == log.verification
    IN  v.ret # "none" =>
            /\ (v.ret = "True") = v.had_positions
            /\ v.ret = "True" => v.spread_is_open
            /\ v.ret = "False" =>
                  /\ ~v.spread_is_open /\ ~v.pending_open /\ ~v.pending_close
                  /\ v.details = NoDetails

\* C25, amended: as above, but after False the spread details are all None
\* only when a flag was set on entry, and otherwise are left as they were
C25_VerificationOutcomeAmended ==
    LET v == log.verification
    IN  v.ret # "none" =>
            /\ (v.ret = "True") = v.had_positions
            /\ v.ret = "True" => v.spread_is_open
            /\ v.ret = "False" =>
                  /\ ~v.spread_is_open /\ ~v.pending_open /\ ~v.pending_close
                  /\ v.details = IF v.any_flag THEN NoDetails ELSE v.details_before

\* daily_state_verification found no holding, a flag set and details stored,
\* and returned False
C25_Witness ==
    /\ log.name = "close_positions"
    /\ log.verification.ret = "False"
    /\ log.verification.any_flag
    /\ log.verification.details_before # NoDetails
    /\ log.verification.details = NoDetails

\* the last order event was a fill that arrived with pending_close True,
\* pending_open False and no ticket left unfilled
CloseCompleted ==
    /\ log.name = "on_order_event"
    /\ \E f \in Fills : f.pending_close /\ ~f.pending_open /\ f.unfilled_tickets = 0

\* C26: after the FILLED event that completes a pending close, spread_is_open
\* and pending_close are False, order_tickets and active_spread_orders are
\* empty, every spread detail is None, and place_spread_order is not blocked
C26_StateAfterClose ==
    CloseCompleted =>
        /\ ~spread_is_open /\ ~pending_close
        /\ order_tickets = <<>>
        /\ active_spread_orders = <<>>
        /\ current_spread_details = NoDetails
        /\ ~Blocked(X)

\* the fill of a closing ticket has completed the close of an open spread
\* whose details were stored
C26_Witness ==
    /\ CloseCompleted
    /\ \E f \in Fills : f.closing /\ f.tracked /\ f.spread_is_open /\ f.details_reset
    /\ ~HasPositions(X)

\* the flags are those the CANCELED or INVALID event found, but for the one
\* flag that on_order_canceled and on_order_invalid clear
CancelClearsOnePending ==
    LET c == log.cancel
    IN  /\ spread_is_open = c.spread_is_open
        /\ (pending_open # c.pending_open \/ pending_close # c.pending_close)
              => c.all_done
        /\ (c.all_done /\ c.pending_open)
              => (~pending_open /\ pending_close = c.pending_close)
        /\ (c.all_done /\ ~c.pending_open)
              => (~pending_open /\ ~pending_close)

\* C27: a CANCELED or INVALID event clears pending_open, or else
\* pending_close, only when every ticket is in a final status, and leaves
\* spread_is_open as it was; when the order was a closing order of an open
\* spread and no closing order is open any more, pending_close is False
C27_CancelHandling ==
    (log.name = "on_order_event" /\ log.cancel.status # "none") =>
        /\ CancelClearsOnePending
        /\ (log.cancel.closing /\ log.cancel.spread_is_open /\ OpenOrders(X, TRUE) = {})
              => (spread_is_open /\ ~pending_close)

\* place_spread_order returned True: the call submitted the sale of one short
\* put and the purchase of one long put, they are the tickets, pending_open is
\* set and the details hold their strikes, today's expiry and 95% of the
\* net credit
PlacedSpread ==
    LET n == Len(orders)
        d == current_spread_details
    IN  /\ log.submitted = 2
        /\ n >= 2
        /\ order_tickets = <<n - 1, n>>
        /\ orders[n - 1] = [symbol |-> d.short_strike, quantity |-> -1,
                            status |-> "Submitted", closing |-> FALSE]
        /\ orders[n] = [symbol |-> d.long_strike, quantity |-> 1,
                        status |-> "Submitted", closing |-> FALSE]
        /\ pending_open
        /\ d.expiry = day
        /\ d.short_strike = d.breakeven + d.max_profit \div 100
        /\ d.long_strike = d.short_strike - (d.max_loss + d.max_profit) \div 100
        /\ d.initial_credit = (95 * (d.max_profit \div 100)) \div 100

SliceContracts == {b_call.slice.chain[i] : i \in 1..Len(b_call.slice.chain)}

ZeroDtePuts == {c \in SliceContracts : c.right = "PUT" /\ c.expiry = Today}

\* C9: every spread order try_open_spread submits has two put legs of the
\* chain that expire on the current date, and it submits nothing when the
\* chain has no pair of puts expiring on the current date
C9_OpensOnlyZeroDte ==
    b_call.tried =>
        /\ \A i \in 1..Len(b_call.opened) :
              /\ b_call.opened[i].expiry = Today
              /\ \E c \in ZeroDtePuts : c.strike = b_call.opened[i].short_strike
              /\ \E c \in ZeroDtePuts : c.strike = b_call.opened[i].long_strike
        /\ Cardinality(ZeroDtePuts) < 2 => b_call.opened = <<>>

\* C29: after every on_data call of bull-credit-spread both pending flags are
\* False; since a scheduled callback last set a flag at most one
\* try_open_spread or try_close_spread call was made for it, and once it was
\* made the flag stays False until the callback sets it again
C29_OneAttemptPerTrigger ==
    /\ b_call.name = "on_data" => (~b_pending_open /\ ~b_pending_close)
    /\ b_call.opens <= 1
    /\ b_call.closes <= 1
    /\ b_call.opens = 1 => ~b_pending_open
    /\ b_call.closes = 1 => ~b_pending_close

\* an on_data call made one open attempt, on a slice without a chain, that
\* opened nothing
C29_Witness ==
    /\ b_call.name = "on_data"
    /\ b_call.tried
    /\ b_call.slice = NoChain
    /\ b_call.opened = <<>>
    /\ b_call.opens = 1
    /\ ~b_spread_open
    /\ ~b_pending_open

(***************************************************************************)
(* Properties of the spread selector.                                      *)
(***************************************************************************)
ChainContracts == {sel_chain[i] : i \in 1..Len(sel_chain)}

TodayPutsAt(k) == {c \in ChainContracts : c.right = "PUT" /\ c.expiry = Today /\ c.strike = k}

SelectedShort == TodayPutsAt(sel_result.spread.short_strike)
SelectedLong == TodayPutsAt(sel_result.spread.long_strike)

\* C5: every spread the selector returns is made of two puts of the chain
\* that expire today, and its long strike is below its short strike
C5_ZeroDtePutLegs ==
    (sel_pc = "done" /\ Found(sel_result)) =>
        /\ SelectedShort # {}
        /\ SelectedLong # {}
        /\ sel_result.spread.expiry = Today
        /\ sel_result.spread.long_strike < sel_result.spread.short_strike

\* a spread was returned from a chain that also holds a call or a put of
\* another expiry
C5_Witness ==
    /\ sel_pc = "done" /\ Found(sel_result)
    /\ \E c \in ChainContracts : c.right = "CALL" \/ c.expiry # Today

\* C6: the short put of every returned spread has greeks, |delta| <=
\* max_delta and a positive bid
C6_ShortLegDeltaAndBid ==
    (sel_pc = "done" /\ Found(sel_result)) =>
        /\ SelectedShort # {}
        /\ \A c \in SelectedShort :
              /\ c.delta # NoDelta
              /\ Abs(c.delta) <= max_delta
              /\ c.bid > 0

\* a spread was returned although a put expiring today above the selected long
\* leg has no delta, too large a delta or no bid
C6_Witness ==
    /\ sel_pc = "done" /\ Found(sel_result)
    /\ \E c \in ChainContracts :
          /\ c.right = "PUT" /\ c.expiry = Today
          /\ c.strike > sel_result.spread.long_strike
          /\ (c.delta = NoDelta \/ Abs(c.delta) > max_delta \/ c.bid <= 0)

\* a pair of puts expiring today whose credit is positive and reaches the
\* fallback percentage of its width
ReachesFallback(s, l) ==
    /\ l.strike < s.strike
    /\ s.bid - l.ask > 0
    /\ (s.bid - l.ask) * 100 >= (s.strike - l.strike) * min_credit_fallback_pct

\* C7: the net credit (short bid - long ask) of every returned spread is
\* positive and at least min_credit_fallback_pct of the width; when no pair
\* of today's puts reaches that, nothing is returned
C7_CreditFloor ==
    sel_pc = "done" =>
        /\ Found(sel_result) =>
              /\ SelectedShort # {} /\ SelectedLong # {}
              /\ \A s \in SelectedShort : \A l \in SelectedLong : ReachesFallback(s, l)
        /\ (\A s, l \in {c \in ChainContracts : c.right = "PUT" /\ c.expiry = Today} :
                ~ReachesFallback(s, l)) => sel_result = NoSpread

\* a spread below the preferred percentage was returned
C7_Witness ==
    /\ sel_pc = "done" /\ Found(sel_result)
    /\ sel_result.max_profit <
           (sel_result.spread.short_strike - sel_result.spread.long_strike) * min_credit_pct

\* C8: the width of every returned spread lies between min_spread_width and
\* max_spread_width, whatever the list of width fallbacks
C8_WidthInRange ==
    (sel_pc = "done" /\ Found(sel_result)) =>
        LET width == sel_result.spread.short_strike - sel_result.spread.long_strike
        IN  min_spread_width <= width /\ width <= max_spread_width

\* a spread was returned for a list of fallbacks with a width above the
\* maximum and one below the minimum
C8_Witness ==
    /\ sel_pc = "done" /\ Found(sel_result)
    /\ \E i, j \in 1..Len(sel_widths) :
          sel_widths[i] > max_spread_width /\ sel_widths[j] < min_spread_width

(***************************************************************************)
(* .windsurf/UpgradedYellowAlligator.py: Basic_Credit_SpreadAlgorithm.     *)
(* A contract is named by its strike; x is the record of the algorithm's   *)
(* fields (self), the platform's orders and its option holdings.           *)
(* Assignment events are not part of the model.                            *)
(***************************************************************************)
MaxYAOrders == 4

ya_min_credit_threshold == 200
ya_stop_loss_multiplier == 2
ya_profit_target_percentage == 50
ya_default_credit == 400

YAPut(strike, delta, bid, ask) ==
    [strike |-> strike, expiry |-> Today, right |-> "put", delta |-> delta,
     bid |-> bid, ask |-> ask]

\* the slices given to on_data: the underlying's price and the option chain
YASlices ==
    { [price |-> 200000, chain |-> <<>>],
      [price |-> 200000,
       chain |-> <<YAPut(180000, -15, 200, 400), YAPut(190000, -30, 1000, 1200)>>],
      [price |-> 200000,
       chain |-> <<YAPut(180000, -15, 200, 400), YAPut(190000, -30, 500, 700)>>],
      [price |-> 200000,
       chain |-> <<YAPut(190000, -30, 1000, 1200), YAPut(210000, -60, 9000, 9200)>>] }

\* the quotes of the two tracked legs held by self.securities at a tick
YAQuotes ==
    { [short_ask |-> 1200, short_price |-> 1200, long_bid |-> 200, long_price |-> 200],
      [short_ask |-> 2400, short_price |-> 2400, long_bid |-> 200, long_price |-> 200],
      [short_ask |-> 0, short_price |-> 300, long_bid |-> 200, long_price |-> 200],
      [short_ask |-> 0, short_price |-> 0, long_bid |-> 0, long_price |-> 0] }

\* the price at which an order fills: two levels for a sale of the short put
YAFillPrice(sym, quantity, p) ==
    IF sym = 190000 /\ quantity < 0 THEN (IF p = 1 THEN 1000 ELSE 800)
    ELSE IF sym = 190000 THEN 1200
    ELSE IF quantity > 0 THEN 400 ELSE 200

YAInvested(x, sym) == sym # None /\ x.portfolio[sym] # 0

ya_reset_spread_state(x) == [x EXCEPT !.self = YANew]

\* transactions.get_orders(symbol == sym and status == FILLED)
YAFilledOrders(x, sym) ==
    SelectSeq(x.orders, LAMBDA o : o.symbol = sym /\ o.status = "Filled")

\* lines 376-393: the spread is marked open and its targets are computed
YAMarkOpen(x) ==
    LET s == YAFilledOrders(x, x.self.opened_short_put_symbol)
        l == YAFilledOrders(x, x.self.opened_long_put_symbol)
        credit == IF Len(s) > 0 /\ Len(l) > 0
                  THEN s[Len(s)].price - l[Len(l)].price
                  ELSE ya_default_credit
    IN  [x EXCEPT !.self.spread_is_open = TRUE,
                  !.self.initial_credit = credit,
                  !.self.stop_loss_target_debit = credit * ya_stop_loss_multiplier,
                  !.self.profit_target_value_debit =
                      (credit * (100 - ya_profit_target_percentage)) \div 100]

YAAlreadyOpen_never(x) == FALSE
YAAlreadyOpen(x) == x.self.spread_is_open

YATickets(ts) == {ts[i] : i \in 1..Len(ts)}

\* an event of a ticket not yet stored counts as an opening event when its
\* symbol is one of the tracked legs
YAFoundInOpening(x, id) ==
    \/ id \in YATickets(x.self.opening_order_tickets)
    \/ /\ id \notin YATickets(x.self.closing_order_tickets)
       /\ x.orders[id].symbol \in
              {x.self.opened_short_put_symbol, x.self.opened_long_put_symbol}

ya_on_order_event(x, id, status) ==
    IF YAFoundInOpening(x, id)
    THEN IF status = "Filled"
         THEN IF /\ YAInvested(x, x.self.opened_short_put_symbol)
                 /\ YAInvested(x, x.self.opened_long_put_symbol)
                 /\ ~YAAlreadyOpen(x)
              THEN YAMarkOpen(x)
              ELSE x
         ELSE ya_reset_spread_state(x)
    ELSE IF id \in YATickets(x.self.closing_order_tickets)
    THEN IF status = "Filled"
         THEN IF /\ ~YAInvested(x, x.self.opened_short_put_symbol)
                 /\ ~YAInvested(x, x.self.opened_long_put_symbol)
              THEN ya_reset_spread_state(x)
              ELSE x
         ELSE [x EXCEPT !.self.pending_close = FALSE]
    ELSE x

\* the platform applies the event to the order and the holdings, then calls
\* on_order_event
YAEvent(x, id, status, p) ==
    LET o == x.orders[id]
    IN  IF status = "Filled"
        THEN ya_on_order_event(
                 [x EXCEPT !.orders[id].status = "Filled",
                           !.orders[id].price = YAFillPrice(o.symbol, o.quantity, p),
                           !.portfolio[o.symbol] = @ + o.quantity], id, status)
        ELSE ya_on_order_event([x EXCEPT !.orders[id].status = status], id, status)

YARegister(x, sym, quantity) ==
    [x EXCEPT !.orders = Append(@, [symbol |-> sym, quantity |-> quantity,
                                    status |-> "Submitted", price |-> 0])]

\* buy(bull_put_spread(short.strike, long.strike), 1): sells the short put and
\* buys the long put; the tickets are stored when buy has returned
YABuyStrategy(x, short, long, sync, p) ==
    With(YARegister(YARegister(x, short, -1), long, 1), LAMBDA y :
        With(IF FillsNow(sync)
             THEN With(YAEvent(y, Len(y.orders) - 1, "Filled", p), LAMBDA z :
                      YAEvent(z, Len(y.orders), "Filled", p))
             ELSE y, LAMBDA z :
            [z EXCEPT !.self.opening_order_tickets =
                          @ \o <<Len(y.orders) - 1, Len(y.orders)>>]))

\* the first contract of sorted(otm_puts, key = (expiry, | |delta| - 0.3 |))
\* whose |delta| is within 0.25..0.35, as a sequence of at most one contract
YAShortPut(otm) ==
    LET ok == {i \in 1..Len(otm) : Abs(otm[i].delta) >= 25 /\ Abs(otm[i].delta) <= 35}
        Key(i) == Abs(Abs(otm[i].delta) - 30)
        Before(i, j) == \/ otm[i].expiry < otm[j].expiry
                        \/ otm[i].expiry = otm[j].expiry /\ Key(i) < Key(j)
                        \/ otm[i].expiry = otm[j].expiry /\ Key(i) = Key(j) /\ i <= j
    IN  IF ok = {} THEN <<>>
        ELSE <<otm[CHOOSE i \in ok : \A j \in ok : Before(i, j)]>>

\* the first of the long candidates sorted by | |delta| - 0.15 | whose |delta|
\* is within 0.10..0.20
YALongPut(otm, short) ==
    LET cands == SelectSeq(otm, LAMBDA c :
                     /\ c.expiry = short.expiry
                     /\ c.strike < short.strike
                     /\ short.strike - c.strike >= 2000
                     /\ short.strike - c.strike <= 30000)
        ok == {i \in 1..Len(cands) :
                  Abs(cands[i].delta) >= 10 /\ Abs(cands[i].delta) <= 20}
        Key(i) == Abs(Abs(cands[i].delta) - 15)
    IN  IF ok = {} THEN <<>>
        ELSE <<cands[CHOOSE i \in ok :
                   \A j \in ok : Key(i) < Key(j) \/ (Key(i) = Key(j) /\ i <= j)]>>

ya_try_open_spread(x, slice, sync, p) ==
    LET otm_puts == SelectSeq(slice.chain, LAMBDA c :
                        c.right = "put" /\ c.strike < slice.price)
        short == YAShortPut(otm_puts)
        long == IF short = <<>> THEN <<>> ELSE YALongPut(otm_puts, short[1])
    IN  IF slice.chain = <<>> \/ otm_puts = <<>> \/ short = <<>> \/ long = <<>>
        THEN x
        ELSE IF short[1].strike = long[1].strike
        THEN x
        ELSE IF short[1].bid - long[1].ask < ya_min_credit_threshold
        THEN x
        ELSE YABuyStrategy(
                 [x EXCEPT !.self.opened_short_put_symbol = short[1].strike,
                           !.self.opened_long_put_symbol = long[1].strike],
                 short[1].strike, long[1].strike, sync, p)

\* liquidate(sym) of an invested leg; the ticket is stored when it has returned
YALiquidate(x, sym, sync, p) ==
    IF ~YAInvested(x, sym)
    THEN x
    ELSE With(YARegister(x, sym, 0 - x.portfolio[sym]), LAMBDA y :
             With(IF FillsNow(sync) THEN YAEvent(y, Len(y.orders), "Filled", p) ELSE y,
                  LAMBDA z :
                 [z EXCEPT !.self.closing_order_tickets = Append(@, Len(y.orders))]))

ya_try_close_spread(x, sync, p) ==
    IF \/ ~x.self.spread_is_open
       \/ x.self.opened_short_put_symbol = None
       \/ x.self.opened_long_put_symbol = None
    THEN [x EXCEPT !.self.pending_close = FALSE]
    ELSE With(YALiquidate(x, x.self.opened_short_put_symbol, sync, p), LAMBDA y :
             With(YALiquidate(y, y.self.opened_long_put_symbol, sync, p), LAMBDA z :
                 IF Len(z.orders) > Len(x.orders)
                 THEN z
                 ELSE ya_reset_spread_state(z)))

\* short ask - long bid with the last price standing in for a zero quote;
\* None when a quote is still zero
YADebit(q) ==
    LET ask == IF q.short_ask = 0 /\ q.short_price # 0 THEN q.short_price ELSE q.short_ask
        bid == IF q.long_bid = 0 /\ q.long_price # 0 THEN q.long_price ELSE q.long_bid
    IN  IF ask = 0 \/ bid = 0 THEN None ELSE ask - bid

ya_check_stop_loss(x, q, sync, p) ==
    IF \/ ~x.self.spread_is_open
       \/ x.self.initial_credit \in {None, 0}
       \/ x.self.opened_short_put_symbol = None
       \/ x.self.opened_long_put_symbol = None
    THEN x
    ELSE IF YADebit(q) = None
    THEN x
    ELSE IF YADebit(q) >= x.self.stop_loss_target_debit
    THEN ya_try_close_spread([x EXCEPT !.self.pending_close = TRUE], sync, p)
    ELSE x

ya_monitor_profit_target(x, q, sync, p) ==
    IF ~x.self.spread_is_open \/ x.self.initial_credit \in {None, 0}
    THEN x
    ELSE IF x.self.opened_short_put_symbol = None \/ x.self.opened_long_put_symbol = None
    THEN x
    ELSE IF YADebit(q) = None
    THEN x
    ELSE IF YADebit(q) <= x.self.profit_target_value_debit
    THEN ya_try_close_spread([x EXCEPT !.self.pending_close = TRUE], sync, p)
    ELSE x

ya_on_data(x, slice, q, sync, p) ==
    IF x.self.pending_open /\ ~x.self.spread_is_open
    THEN With(ya_try_open_spread(x, slice, sync, p), LAMBDA y :
             [y EXCEPT !.self.pending_open = FALSE])
    ELSE IF x.self.pending_close /\ x.self.spread_is_open
    THEN ya_try_close_spread(x, sync, p)
    ELSE IF x.self.spread_is_open /\ ~x.self.pending_close
    THEN With(ya_check_stop_loss(x, q, sync, p), LAMBDA y :
             IF y.self.pending_close
             THEN y
             ELSE IF y.self.spread_is_open
             THEN ya_monitor_profit_target(y, q, sync, p)
             ELSE y)
    ELSE x

(***************************************************************************)
(* Specification of UpgradedYellowAlligator: open_trades at 10:00 and      *)
(* close_positions before the close alternate, data ticks and order events *)
(* come at any time.                                                       *)
(***************************************************************************)
YAX == [self |-> ya_self, orders |-> ya_orders, portfolio |-> ya_portfolio]

YACommit(x, name, id, status) ==
    /\ Len(x.orders) <= MaxYAOrders
    /\ ya_self' = x.self
    /\ ya_orders' = x.orders
    /\ ya_portfolio' = x.portfolio
    /\ ya_log' = [name |-> name, id |-> id, status |-> status, before |-> ya_self]
    /\ UNCHANGED <<selvars, bullvars, v2vars, bearvars, calcvars, origvars>>

ya_open_trades ==
    /\ ya_phase = 0
    /\ ya_phase' = 1
    /\ \E x \in {IF ya_self.spread_is_open
                 THEN YAX
                 ELSE [YAX EXCEPT !.self.pending_open = TRUE]} :
           YACommit(x, "open_trades", None, "None")

ya_close_positions ==
    /\ ya_phase = 1
    /\ ya_phase' = 0
    /\ \E x \in {IF ~ya_self.spread_is_open
                 THEN YAX
                 ELSE [YAX EXCEPT !.self.pending_close = TRUE]} :
           YACommit(x, "close_positions", None, "None")

YAOnData ==
    \E slice \in YASlices, q \in YAQuotes, sync \in Syncs, p \in 1..2 :
        /\ (~(ya_self.pending_open /\ ~ya_self.spread_is_open)
               => slice.chain = <<>>)
        /\ (~ya_self.spread_is_open \/ ya_self.pending_close
               => q.short_ask = 1200)
        /\ (~FillsNow(sync) => p = 1)
        /\ \E x \in {ya_on_data(YAX, slice, q, sync, p)} :
               YACommit(x, "on_data", None, "None")
        /\ UNCHANGED ya_phase

YAOrderEvent ==
    \E id \in 1..Len(ya_orders), status \in {"Filled", "Canceled", "Invalid"},
       p \in 1..2 :
        /\ ya_orders[id].status = "Submitted"
        /\ (status # "Filled" => p = 1)
        /\ \E x \in {YAEvent(YAX, id, status, p)} : YACommit(x, "on_order_event", id, status)
        /\ UNCHANGED ya_phase

YANext == ya_open_trades \/ ya_close_positions \/ YAOnData \/ YAOrderEvent

YASpecInit == SelIdle /\ BullInit /\ V2Init /\ YAInit /\ BearInit /\ CalcIdle /\ OrigInit

SpecYA == YASpecInit /\ [][YANext]_vars

\* the event of the last callback counted as an opening fill
YAOpeningFill ==
    /\ ya_log.name = "on_order_event"
    /\ ya_log.status = "Filled"
    /\ \/ ya_log.id \in YATickets(ya_log.before.opening_order_tickets)
       \/ /\ ya_log.id \notin YATickets(ya_log.before.closing_order_tickets)
          /\ ya_orders[ya_log.id].symbol \in
                 {ya_log.before.opened_short_put_symbol,
                  ya_log.before.opened_long_put_symbol}

YABothLegsInvested ==
    /\ ya_log.before.opened_short_put_symbol # None
    /\ ya_log.before.opened_long_put_symbol # None
    /\ ya_portfolio[ya_log.before.opened_short_put_symbol] # 0
    /\ ya_portfolio[ya_log.before.opened_long_put_symbol] # 0

\* the price of the last filled order on sym, None without one
YALastFillPrice(sym) ==
    LET ids == {i \in 1..Len(ya_orders) :
                   ya_orders[i].symbol = sym /\ ya_orders[i].status = "Filled"}
    IN  IF ids = {} THEN None
        ELSE ya_orders[CHOOSE i \in ids : \A j \in ids : j <= i].price

YAExpectedCredit ==
    LET s == YALastFillPrice(ya_log.before.opened_short_put_symbol)
        l == YALastFillPrice(ya_log.before.opened_long_put_symbol)
    IN  IF s # None /\ l # None THEN s - l ELSE 400

BearIds(ids) == {ids[i] : i \in 1..Len(ids)}

BearHeld(x, sym) == sym # None /\ x.portfolio[sym] # 0

\* lines 218-219: a fill of each leg has been seen
BearLegsFilled_either(x) ==
    x.self.filled_short_leg_symbol # None \/ x.self.filled_long_leg_symbol # None

BearLegsFilled(x) ==
    x.self.filled_short_leg_symbol # None /\ x.self.filled_long_leg_symbol # None

\* lines 195-251: a FILLED event
BearFilled(x, id) ==
    LET o == x.orders[id]
        is_opening_leg_fill == id \in BearIds(x.self.opening_order_ids)
        y == IF ~is_opening_leg_fill THEN x
             ELSE IF o.quantity < 0
             THEN [x EXCEPT !.self.filled_short_leg_symbol = o.symbol]
             ELSE IF o.quantity > 0
             THEN [x EXCEPT !.self.filled_long_leg_symbol = o.symbol]
             ELSE x
        z == IF /\ is_opening_leg_fill
                /\ BearLegsFilled(y)
                /\ ~y.self.spread_is_open
             THEN [y EXCEPT !.self.spread_is_open = TRUE,
                            !.self.opening_order_ids = <<>>]
             ELSE y
        is_closing_leg_fill ==
            /\ ~is_opening_leg_fill
            /\ z.self.trade_close_flagged
            /\ \/ /\ z.self.filled_short_leg_symbol # None
                  /\ o.symbol = z.self.filled_short_leg_symbol
                  /\ o.quantity > 0
               \/ /\ z.self.filled_long_leg_symbol # None
                  /\ o.symbol = z.self.filled_long_leg_symbol
                  /\ o.quantity < 0
    IN  IF /\ is_closing_leg_fill
           /\ z.self.spread_is_open
           /\ ~BearHeld(z, z.self.filled_short_leg_symbol)
           /\ ~BearHeld(z, z.self.filled_long_leg_symbol)
        THEN [z EXCEPT !.self.spread_is_open = FALSE,
                       !.self.filled_short_leg_symbol = None,
                       !.self.filled_long_leg_symbol = None,
                       !.self.trade_close_flagged = FALSE]
        ELSE z

\* lines 253-264: a CANCELED event
BearCanceled(x, id) ==
    IF id \notin BearIds(x.self.opening_order_ids) THEN x
    ELSE LET rest == SelectSeq(x.self.opening_order_ids, LAMBDA i : i # id)
         IN  IF rest = <<>>
             THEN [x EXCEPT !.self.opening_order_ids = <<>>,
                            !.self.filled_short_leg_symbol = None,
                            !.self.filled_long_leg_symbol = None,
                            !.self.spread_is_open = FALSE,
                            !.self.pending_open_trade_flag = FALSE,
                            !.self.trade_close_flagged = FALSE]
             ELSE [x EXCEPT !.self.opening_order_ids = rest,
                            !.self.trade_close_flagged = FALSE]

\* lines 266-284: an INVALID event
BearInvalid(x, id) ==
    IF id \notin BearIds(x.self.opening_order_ids) THEN x
    ELSE [x EXCEPT !.self.opening_order_ids = <<>>,
                   !.self.filled_short_leg_symbol = None,
                   !.self.filled_long_leg_symbol = None,
                   !.self.spread_is_open = FALSE,
                   !.self.pending_open_trade_flag = FALSE,
                   !.self.trade_close_flagged = FALSE]

bear_on_order_event(x, id, status) ==
    IF status = "Filled" THEN BearFilled(x, id)
    ELSE IF status = "Canceled" THEN BearCanceled(x, id)
    ELSE BearInvalid(x, id)

\* the platform applies the event to the order and the holdings, then calls
\* on_order_event
BearEvent(x, id, status) ==
    LET o == x.orders[id]
    IN  bear_on_order_event(
            [x EXCEPT !.orders[id].status = status,
                      !.portfolio[o.symbol] =
                          IF status = "Filled" THEN @ + o.quantity ELSE @],
            id, status)

BearRegister(x, sym, quantity) ==
    [x EXCEPT !.orders = Append(@, [symbol |-> sym, quantity |-> quantity,
                                    status |-> "Submitted"])]

\* buy(bear_call_spread(short.strike, long.strike, today), 1) sells the call
\* of the lower strike and buys the call of the higher strike; the ids are
\* stored when buy has returned
BearBuyStrategy(x, short_call, long_call, sync) ==
    With(BearRegister(BearRegister(x, short_call.symbol, -1), long_call.symbol, 1),
         LAMBDA y :
        With(IF FillsNow(sync)
             THEN With(BearEvent(y, Len(y.orders) - 1, "Filled"), LAMBDA z :
                      BearEvent(z, Len(y.orders), "Filled"))
             ELSE y, LAMBDA z :
            [z EXCEPT !.self.opening_order_ids = <<Len(y.orders) - 1, Len(y.orders)>>,
                      !.self.filled_short_leg_symbol = None,
                      !.self.filled_long_leg_symbol = None,
                      !.log.opened = <<Len(y.orders) - 1, Len(y.orders)>>]))

\* the position of the first element of s that equals c
BearIndex(s, c) == CHOOSE i \in 1..Len(s) : s[i] = c /\ \A j \in 1..(i - 1) : s[j] # c

BearStrikeOf(c) == c.strike

\* line 130: an out-of-the-money call
BearAbove_orequal(c, price) == c.strike >= price
BearAbove(c, price) == c.strike > price

\* how is what buy does: "ok" or "exception"
bear_try_open_spread_strategy(x, chain, price, today, sync, how) ==
    IF x.self.spread_is_open \/ Len(x.self.opening_order_ids) > 0 THEN x
    ELSE IF chain = <<>> THEN x
    ELSE With(SelectSeq(chain, LAMBDA c : c.right = "call" /\ c.expiry = today),
              LAMBDA calls_expiring_today :
        IF Len(calls_expiring_today) < 2 THEN x
        ELSE With(SortAsc(calls_expiring_today, BearStrikeOf), LAMBDA sorted_calls :
            With(SelectSeq(sorted_calls, LAMBDA c : BearAbove(c, price)),
                 LAMBDA short_call_candidates :
                IF short_call_candidates = <<>> THEN x
                ELSE IF BearIndex(sorted_calls, short_call_candidates[1]) + 1
                            > Len(sorted_calls)
                THEN x
                ELSE IF how = "exception"
                THEN [x EXCEPT !.self.opening_order_ids = <<>>]
                ELSE BearBuyStrategy(x, short_call_candidates[1],
                         sorted_calls[BearIndex(sorted_calls,
                                                short_call_candidates[1]) + 1],
                         sync))))

\* liquidate(sym) of a held leg
BearLiquidate(x, sym, sync) ==
    IF ~BearHeld(x, sym) THEN x
    ELSE With(BearRegister([x EXCEPT !.log.liquidated = Append(@, sym)],
                           sym, 0 - x.portfolio[sym]), LAMBDA y :
             IF FillsNow(sync) THEN BearEvent(y, Len(y.orders), "Filled") ELSE y)

bear_try_close_spread_strategy(x, sync) ==
    IF ~x.self.spread_is_open
    THEN [x EXCEPT !.self.trade_close_flagged = FALSE]
    ELSE With(BearLiquidate(x, x.self.filled_short_leg_symbol, sync), LAMBDA y :
             BearLiquidate(y, y.self.filled_long_leg_symbol, sync))

bear_on_data(x, chain, price, today, sync, how) ==
    With(IF x.self.pending_open_trade_flag
         THEN [bear_try_open_spread_strategy(x, chain, price, today, sync, how)
                  EXCEPT !.self.pending_open_trade_flag = FALSE]
         ELSE x, LAMBDA y :
        IF y.self.pending_close_trade_flag
        THEN [bear_try_close_spread_strategy(y, sync)
                 EXCEPT !.self.pending_close_trade_flag = FALSE]
        ELSE y)

(***************************************************************************)
(* Specification of bear-credit-spread: schedule_open_trades at 10:00,     *)
(* schedule_close_trades 15 minutes before the close, a data slice after   *)
(* it, then the next day; data slices and order events at any time.        *)
(* br_phase is 0 before schedule_open_trades, 1 after it, 2 after          *)
(* schedule_close_trades and 3 after the first data slice that follows it. *)
(***************************************************************************)
BearX(name) ==
    [self |-> br_self, orders |-> br_orders, portfolio |-> br_portfolio,
     log |-> BearLog(name)]

BearCommit(x) ==
    /\ Len(x.orders) <= MaxBearOrders
    /\ br_self' = x.self
    /\ br_orders' = x.orders
    /\ br_portfolio' = x.portfolio
    /\ br_log' = x.log
    /\ UNCHANGED <<selvars, bullvars, v2vars, yavars, calcvars, origvars>>

schedule_open_trades ==
    /\ br_phase = 0
    /\ br_phase' = 1
    /\ \E x \in {IF br_self.spread_is_open \/ Len(br_self.opening_order_ids) > 0
                 THEN BearX("schedule_open_trades")
                 ELSE [BearX("schedule_open_trades")
                          EXCEPT !.self.pending_open_trade_flag = TRUE]} :
           BearCommit(x)
    /\ UNCHANGED br_day

schedule_close_trades ==
    /\ br_phase = 1
    /\ br_phase' = 2
    /\ \E x \in {IF ~br_self.spread_is_open
                 THEN BearX("schedule_close_trades")
                 ELSE [BearX("schedule_close_trades")
                          EXCEPT !.self.pending_close_trade_flag = TRUE,
                                 !.self.trade_close_flagged = TRUE]} :
           BearCommit([x EXCEPT !.log.held_at_close = br_portfolio])
    /\ UNCHANGED br_day

BearOnData ==
    \E chain \in BearChains(br_day), price \in BearPrices, sync \in Syncs,
       how \in {"ok", "exception"} :
        /\ ~br_self.pending_open_trade_flag =>
               (chain = <<>> /\ price = 100 /\ how = "ok")
        /\ (~br_self.pending_open_trade_flag /\ ~br_self.pending_close_trade_flag)
               => sync = "none"
        /\ br_phase' = IF br_phase = 2 THEN 3 ELSE br_phase
        /\ \E x \in {bear_on_data(
                        [BearX("on_data") EXCEPT !.log.chain = chain,
                                                 !.log.price = price,
                                                 !.log.today = br_day,
                                                 !.log.after_close = (br_phase = 2)],
                        chain, price, br_day, sync, how)} :
               /\ (how = "exception" => x.log.opened = <<>> /\ sync = "none")
               /\ (x.log.opened = <<>> /\ x.log.liquidated = <<>>) => sync = "none"
               /\ BearCommit(x)
        /\ UNCHANGED br_day

BearOrderEvent ==
    \E id \in 1..Len(br_orders), status \in {"Filled", "Canceled", "Invalid"} :
        /\ br_orders[id].status = "Submitted"
        /\ \E x \in {BearEvent([BearX("on_order_event") EXCEPT !.log.id = id,
                                                                !.log.status = status],
                               id, status)} : BearCommit(x)
        /\ UNCHANGED <<br_phase, br_day>>

\* the next day begins when the book is flat and no order is open
BearNewDay ==
    /\ br_phase = 3
    /\ br_day < MaxBearDays
    /\ \A k \in BearSyms : br_portfolio[k] = 0
    /\ \A i \in 1..Len(br_orders) : br_orders[i].status # "Submitted"
    /\ br_day' = br_day + 1
    /\ br_phase' = 0
    /\ \E x \in {BearX("new_day")} :
           BearCommit([x EXCEPT !.log.held_at_close = [k \in BearSyms |-> 0]])

BearNext ==
    \/ schedule_open_trades
    \/ schedule_close_trades
    \/ BearOnData
    \/ BearOrderEvent
    \/ BearNewDay

BearSpecInit == SelIdle /\ BullInit /\ V2Init /\ YAInit /\ BearInit /\ CalcIdle /\ OrigInit

SpecBear == BearSpecInit /\ [][BearNext]_vars

\* the calls of the slice that expire on the day of the call, and those of
\* them above the underlying's price
BearTodayCalls ==
    {c \in {br_log.chain[i] : i \in 1..Len(br_log.chain)} :
        c.right = "call" /\ c.expiry = br_log.today}

BearOtmCalls == {c \in BearTodayCalls : c.strike > br_log.price}

\* C14: the spread submitted by an on_data call sells one call and buys one
\* call, both calls of the slice expiring that day; the call sold has the
\* lowest strike above the underlying's price and the call bought the next
\* higher strike of the day's calls; and an opening attempt on a slice with
\* fewer than two such calls submits nothing and leaves an empty
\* opening_order_ids empty
C14_BearSpreadLegs ==
    br_log.name = "on_data" =>
        /\ br_log.opened # <<>> =>
               /\ Len(br_log.opened) = 2
               /\ br_self.opening_order_ids = br_log.opened
               /\ \E s \in BearOtmCalls, l \in BearTodayCalls :
                      /\ br_orders[br_log.opened[1]].symbol = s.symbol
                      /\ br_orders[br_log.opened[1]].quantity = -1
                      /\ br_orders[br_log.opened[2]].symbol = l.symbol
                      /\ br_orders[br_log.opened[2]].quantity = 1
                      /\ \A c \in BearOtmCalls : s.strike <= c.strike
                      /\ s.strike < l.strike
                      /\ \A c \in BearTodayCalls :
                             c.strike > s.strike => l.strike <= c.strike
        /\ (br_log.before.pending_open_trade_flag /\ Cardinality(BearOtmCalls) < 2) =>
               /\ br_log.opened = <<>>
               /\ (br_log.before.opening_order_ids = <<>>
                      => br_self.opening_order_ids = <<>>)

\* a spread is opened on a chain whose lowest call of the day is at the money
C14_Witness ==
    /\ br_log.name = "on_data"
    /\ br_log.opened # <<>>
    /\ br_log.price = 101
    /\ Cardinality(BearTodayCalls) = 3
    /\ br_orders[br_log.opened[1]].symbol = br_log.today * 1000 + 102
    /\ br_orders[br_log.opened[2]].symbol = br_log.today * 1000 + 103

\* C16: the first data slice after schedule_close_trades submits a
\* liquidation for every leg that was held at that callback and is still
\* held when the slice arrives
C16_BearClosesHeldLegs ==
    (br_log.name = "on_data" /\ br_log.after_close) =>
        \A k \in BearSyms :
            (br_log.held_at_close[k] # 0 /\ br_log.held[k] # 0) =>
                \E i \in 1..Len(br_log.liquidated) : br_log.liquidated[i] = k

\* the callback found spread_is_open False and left it True
BearOpened == ~br_log.before.spread_is_open /\ br_self.spread_is_open

\* the filled orders of a symbol with a quantity of the given sign
BearFillsOf(sym, sign) ==
    {i \in 1..Len(br_orders) : /\ br_orders[i].status = "Filled"
                               /\ br_orders[i].symbol = sym
                               /\ br_orders[i].quantity * sign > 0}

\* C30: spread_is_open becomes True only in the handling of a FILLED event of
\* an order of opening_order_ids, after which filled_short_leg_symbol is set
\* from a fill of negative quantity and filled_long_leg_symbol from a fill of
\* positive quantity and opening_order_ids is empty; and a callback submits
\* opening orders only when it found spread_is_open False and
\* opening_order_ids empty
C30_BearOpeningProtocol ==
    /\ BearOpened =>
          /\ br_log.name = "on_order_event"
          /\ br_log.status = "Filled"
          /\ br_log.id \in BearIds(br_log.before.opening_order_ids)
          /\ br_self.filled_short_leg_symbol # None
          /\ br_self.filled_long_leg_symbol # None
          /\ BearFillsOf(br_self.filled_short_leg_symbol, -1) # {}
          /\ BearFillsOf(br_self.filled_long_leg_symbol, 1) # {}
          /\ br_self.opening_order_ids = <<>>
    /\ br_log.opened # <<>> =>
          /\ ~br_log.before.spread_is_open
          /\ br_log.before.opening_order_ids = <<>>

\* the fill of the second opening order opened the spread
C30_Witness ==
    /\ BearOpened
    /\ br_log.name = "on_order_event"
    /\ br_log.status = "Filled"
    /\ br_log.id \in BearIds(br_log.before.opening_order_ids)
    /\ br_self.opening_order_ids = <<>>
    /\ br_portfolio[br_self.filled_short_leg_symbol] < 0
    /\ br_portfolio[br_self.filled_long_leg_symbol] > 0

\* the opening orders the callback started with have all been filled or
\* canceled
BearOpeningsTerminal ==
    \A i \in BearIds(br_log.before.opening_order_ids) :
        br_orders[i].status \in {"Filled", "Canceled"}

\* C31: after the CANCELED event of an opening order that leaves every
\* opening order filled or canceled and the spread not open,
\* opening_order_ids is empty; and a schedule_open_trades callback that finds
\* the spread not open and every opening order filled or canceled sets
\* pending_open_trade_flag
C31_BearCancelRecovery ==
    /\ (/\ br_log.name = "on_order_event"
        /\ br_log.status = "Canceled"
        /\ br_log.id \in BearIds(br_log.before.opening_order_ids)
        /\ BearOpeningsTerminal
        /\ ~br_self.spread_is_open)
          => br_self.opening_order_ids = <<>>
    /\ (/\ br_log.name = "schedule_open_trades"
        /\ BearOpeningsTerminal
        /\ ~br_log.before.spread_is_open)
          => br_self.pending_open_trade_flag

(***************************************************************************)
(* Specification of OrderExecutor.calculate_current_spread_value: the      *)
(* executor holds no details or the details of a spread, the call is given *)
(* a chain of at most MaxCalcChain contracts.                              *)
(***************************************************************************)
MaxCalcChain == 3

CalcStrikes == {30000, 31000, 32000}

\* one contract per strike, right and expiry, each with quotes of its own
CalcContract(r, e, k) ==
    LET bid == (k - 29000) \div 10 + (IF e = Today THEN 0 ELSE 7)
                   + (IF r = "PUT" THEN 0 ELSE 3)
    IN  Contract(r, e, k, NoDelta, <<bid, 2 * bid + 50>>)

CalcContracts ==
    {CalcContract(r, e, k) : r \in {"PUT", "CALL"}, e \in {Today, Today + 1},
                             k \in CalcStrikes}

CalcChains ==
    UNION {{c \in [1..n -> CalcContracts] : \A i, j \in 1..n : i # j => c[i] # c[j]} :
              n \in 0..MaxCalcChain}

\* the details the executor holds: none, or those of a spread it placed
CalcDetails ==
    {NoDetails}
    \cup {[NoDetails EXCEPT !.short_strike = sl[1], !.long_strike = sl[2],
                            !.initial_credit = 300, !.expiry = Today] :
             sl \in {pair \in CalcStrikes \X CalcStrikes : pair[2] < pair[1]}}

CalcInit ==
    /\ SelIdle /\ BullInit /\ YAInit /\ BearInit /\ OrigInit
    /\ spread_is_open \in BOOLEAN
    /\ pending_open = FALSE
    /\ pending_close \in BOOLEAN
    /\ last_reset_date = Today
    /\ current_spread_details \in CalcDetails
    /\ order_tickets = <<>>
    /\ active_spread_orders = <<>>
    /\ orders = <<>>
    /\ portfolio = [k \in Syms |-> 0]
    /\ option_chain = <<>>
    /\ chains_loaded_today = FALSE
    /\ day = Today
    /\ phase = 0
    /\ log = NewLog("initialize")
    /\ cv_in \in {[chain |-> c, spread_is_open |-> spread_is_open,
                   pending_open |-> pending_open, pending_close |-> pending_close] :
                     c \in CalcChains}
    /\ cv_out = [done |-> FALSE, ret |-> None]

CalcCall ==
    /\ ~cv_out.done
    /\ cv_out' = [done |-> TRUE,
                  ret |-> calculate_current_spread_value(X, cv_in.chain, day)]
    /\ UNCHANGED <<cv_in, selvars, bullvars, v2vars, yavars, bearvars, origvars>>

CalcNext == CalcCall

SpecCalc == CalcInit /\ [][CalcNext]_vars

\* the positions of the chain given to the call that hold a put expiring
\* today at strike k
CalcPutsAt(k) ==
    {i \in 1..Len(cv_in.chain) :
        /\ cv_in.chain[i].right = "PUT"
        /\ cv_in.chain[i].expiry = day
        /\ cv_in.chain[i].strike = k}

CalcPriced ==
    /\ current_spread_details.short_strike # None
    /\ current_spread_details.long_strike # None
    /\ CalcPutsAt(current_spread_details.short_strike) # {}
    /\ CalcPutsAt(current_spread_details.long_strike) # {}

\* C15: the call returns the ask of the put expiring today at the stored
\* short strike minus the bid of the put expiring today at the stored long
\* strike; it returns None when the chain is empty, a stored strike is None,
\* no put expires today or a stored strike has no such put; and the three
\* flags are as they were before the call
C15_SpreadValue ==
    cv_out.done =>
        /\ CalcPriced =>
               \E i \in CalcPutsAt(current_spread_details.short_strike),
                  j \in CalcPutsAt(current_spread_details.long_strike) :
                   cv_out.ret = cv_in.chain[i].ask - cv_in.chain[j].bid
        /\ ~CalcPriced => cv_out.ret = None
        /\ spread_is_open = cv_in.spread_is_open
        /\ pending_open = cv_in.pending_open
        /\ pending_close = cv_in.pending_close

\* a chain with both puts, a call and a put of another strike in between
C15_Witness ==
    /\ cv_out.done
    /\ CalcPriced
    /\ Len(cv_in.chain) = 3
    /\ cv_in.chain[2].right = "CALL"
    /\ spread_is_open
    /\ cv_out.ret = 650 - 100

(***************************************************************************)
(* original-main.py: Basic_Credit_SpreadAlgorithm.  x is the record of the *)
(* algorithm's fields (self), the platform's orders and option holdings,   *)
(* and whether a runtime error has been raised.  Prices are in cents,      *)
(* deltas in hundredths.                                                   *)
(***************************************************************************)
om_min_credit_threshold == 10
om_stop_loss_multiplier == 2
om_profit_target_percentage == 50
om_short_put_delta_max == 30
om_spread_width_fixed == 5

\* chain.underlying.price
OrigUnderlying == 405

OrigPut(expiry, strike, delta, bid, ask) ==
    [right |-> "put", expiry |-> expiry, strike |-> strike, delta |-> delta,
     bid |-> bid, ask |-> ask, symbol |-> OrigSym(expiry, strike)]

\* the slices given to on_data: no chain; one put; two puts five points
\* apart; three puts of which the highest is too close to the money and the
\* target strike of the long put is missing; two puts whose credit is below
\* the threshold; a chain that has a pair only for tomorrow
OrigSlices ==
    {<<>>,
     <<OrigPut(Today, 400, -28, 150, 160)>>,
     <<OrigPut(Today, 395, -20, 90, 100), OrigPut(Today, 400, -28, 150, 160)>>,
     <<OrigPut(Today, 400, -45, 250, 260), OrigPut(Today, 385, -10, 40, 50),
       OrigPut(Today, 395, -20, 90, 100)>>,
     <<OrigPut(Today, 395, -20, 90, 145), OrigPut(Today, 400, -28, 150, 160)>>,
     <<OrigPut(Today, 400, NoDelta, 150, 160), OrigPut(Today + 1, 395, -20, 120, 130),
       OrigPut(Today + 1, 400, -28, 190, 200)>>}

OrigRange(s) == {s[i] : i \in 1..Len(s)}

\* min(strikes, key=lambda s: abs(s - target)): the lowest of the closest
OrigClosest(strikes, target) ==
    CHOOSE k \in strikes :
        \A j \in strikes : \/ Abs(k - target) < Abs(j - target)
                           \/ (Abs(k - target) = Abs(j - target) /\ k <= j)

\* lines 296-443 of try_open_spread, with the configured modes ("MAX",
\* "FIXED", "WIDTH"): the short and the long put chosen in the chain, or
\* found FALSE
OrigNoSpread == [found |-> FALSE, short |-> None, long |-> None, credit |-> 0]

orig_select_legs(chain, current_date) ==
    LET puts == {c \in OrigRange(chain) :
                    c.right = "put" /\ c.strike < OrigUnderlying}
        at(e) == {c \in puts : c.expiry = e}
        usable == {e \in {c.expiry : c \in puts} : Cardinality(at(e)) >= 2}
    IN  IF puts = {} \/ usable = {} THEN OrigNoSpread
        ELSE LET target_expiry_date ==
                     IF current_date \in usable THEN current_date
                     ELSE CHOOSE e \in usable : \A f \in usable : e <= f
                 target_contracts == at(target_expiry_date)
                 short_put_candidates ==
                     {c \in target_contracts :
                         HasDelta(c) /\ Abs(c.delta) <= om_short_put_delta_max}
             IN  IF short_put_candidates = {} THEN OrigNoSpread
                 ELSE LET short_put == CHOOSE c \in short_put_candidates :
                              \A d \in short_put_candidates : d.strike <= c.strike
                          long_put_strike_target ==
                              short_put.strike - om_spread_width_fixed
                          strikes == {c.strike : c \in target_contracts}
                          below == {k \in strikes : k < short_put.strike}
                      IN  IF long_put_strike_target \notin strikes /\ below = {}
                          THEN OrigNoSpread
                          ELSE LET long_strike ==
                                       IF long_put_strike_target \in strikes
                                       THEN long_put_strike_target
                                       ELSE OrigClosest(below, long_put_strike_target)
                                   long_put == CHOOSE c \in target_contracts :
                                                   c.strike = long_strike
                                   expected_credit ==
                                       (short_put.bid - long_put.ask) * 100
                               IN  IF short_put.strike = long_put.strike
                                   THEN OrigNoSpread
                                   ELSE IF expected_credit
                                             < om_min_credit_threshold * 100
                                   THEN OrigNoSpread
                                   ELSE [found |-> TRUE, short |-> short_put.symbol,
                                         long |-> long_put.symbol,
                                         credit |-> expected_credit \div 100]

OrigInvested(x, sym) == sym # None /\ x.portfolio[sym] # 0

\* lines 646-658
orig_reset_spread_state(x) ==
    [x EXCEPT !.self.spread_is_open = FALSE,
              !.self.pending_open = FALSE,
              !.self.pending_close = FALSE,
              !.self.initial_credit = None,
              !.self.opened_short_put_symbol = None,
              !.self.opened_long_put_symbol = None,
              !.self.opening_order_tickets = <<>>,
              !.self.closing_order_tickets = <<>>]

\* lines 756-780: both fill prices are known.  The difference with
\* initial_credit raises a TypeError while initial_credit is None (x.halted)
OrigBothLegsFilled(x) ==
    LET actual_credit == x.self.short_put_fill_price - x.self.long_put_fill_price
    IN  IF x.self.initial_credit = None THEN [x EXCEPT !.halted = TRUE]
        ELSE [x EXCEPT !.self.initial_credit =
                           IF Abs(actual_credit - @) > 1 THEN actual_credit ELSE @,
                       !.self.spread_is_open = TRUE,
                       !.self.pending_open = FALSE,
                       !.self.opening_order_tickets = <<>>]

\* lines 730-780: a FILLED event of an opening order.  x.und is whether the
\* symbols of the platform have an underlying_symbol attribute
OrigOpeningFilled(x, sym, p) ==
    LET s == x.self
        y == IF sym = s.opened_short_put_symbol
             THEN [x EXCEPT !.self.short_put_fill_price = p]
             ELSE IF sym = s.opened_long_put_symbol
             THEN [x EXCEPT !.self.long_put_fill_price = p]
             ELSE IF x.und /\ s.initial_credit = 0
             THEN [x EXCEPT !.self.initial_credit = s.expected_credit,
                            !.self.spread_is_open = TRUE,
                            !.self.pending_open = FALSE]
             ELSE x
    IN  IF y.self.short_put_fill_price # None /\ y.self.long_put_fill_price # None
        THEN OrigBothLegsFilled(y)
        ELSE IF y.self.spread_is_open
        THEN IF y.self.initial_credit = None THEN [y EXCEPT !.halted = TRUE]
             ELSE [y EXCEPT !.self.spread_is_open = TRUE,
                            !.self.pending_open = FALSE,
                            !.self.opening_order_tickets = <<>>]
        ELSE y

\* lines 790-806: a FILLED event of a closing order
OrigClosingFilled(x) ==
    IF x.und THEN orig_reset_spread_state(x)
    ELSE IF /\ ~OrigInvested(x, x.self.opened_short_put_symbol)
            /\ ~OrigInvested(x, x.self.opened_long_put_symbol)
    THEN orig_reset_spread_state(x)
    ELSE x

\* lines 701-831.  The orders of the model are no exercises, so that
\* is_assignment is False
orig_on_order_event(x, id, status, p) ==
    LET s == x.self
        sym == x.orders[id].symbol
        in_opening == id \in OrigRange(s.opening_order_tickets)
        in_closing == id \in OrigRange(s.closing_order_tickets)
        tracked == sym \in {s.opened_short_put_symbol, s.opened_long_put_symbol}
        by_symbol == ~in_opening /\ ~in_closing /\ tracked
        is_opening_order ==
            in_opening \/ (by_symbol /\ s.pending_open /\ ~s.spread_is_open)
        is_closing_order ==
            \/ in_closing
            \/ /\ by_symbol
               /\ ~(s.pending_open /\ ~s.spread_is_open)
               /\ s.pending_close /\ s.spread_is_open
    IN  IF is_opening_order
        THEN IF status = "Filled" THEN OrigOpeningFilled(x, sym, p)
             ELSE orig_reset_spread_state(x)
        ELSE IF is_closing_order
        THEN IF status = "Filled" THEN OrigClosingFilled(x)
             ELSE [x EXCEPT !.self.pending_close = FALSE]
        ELSE x

\* the platform applies the event to the order and the holdings, then calls
\* on_order_event; an exception raised there is a runtime error: it stops
\* the algorithm when the callback that is running has returned
OrigEvent(x, id, status, p) ==
    LET o == x.orders[id]
    IN  orig_on_order_event(
            [x EXCEPT !.orders[id].status = status,
                      !.portfolio[o.symbol] =
                          IF status = "Filled" THEN @ + o.quantity ELSE @],
            id, status, p)

OrigRegister(x, sym, quantity) ==
    [x EXCEPT !.orders = Append(@, [symbol |-> sym, quantity |-> quantity,
                                    status |-> "Submitted"])]

\* market_order(sym, quantity), liquidate(sym), buy(sym, n), sell(sym, n):
\* one order, filled before the call returns when sync says so
OrigMarketOrder(x, sym, quantity, sync, p) ==
    With(OrigRegister(x, sym, quantity), LAMBDA y :
        IF FillsNow(sync) THEN OrigEvent(y, Len(y.orders), "Filled", p) ELSE y)

\* buy(strategy, 1) and sell(strategy, 1) of the bull put spread: an order
\* for each leg; n is 1 to open (short the higher strike) and -1 to close
OrigStrategyOrder(x, short, long, n, sync, p) ==
    With(OrigRegister(OrigRegister(x, short, 0 - n), long, n), LAMBDA y :
        IF FillsNow(sync)
        THEN With(OrigEvent(y, Len(y.orders) - 1, "Filled", p), LAMBDA z :
                 OrigEvent(z, Len(y.orders), "Filled", p))
        ELSE y)

OrigLastTwo(x) == <<Len(x.orders) - 1, Len(x.orders)>>

\* lines 445-527 of try_open_spread.  how is what the platform does with the
\* orders: "ok"; "empty" (buy returns no ticket); "legs" (the strategy raises
\* and the two leg orders are placed); "short" (the purchase of the long put
\* raises too, after the sale of the short put); "fail" (both raise at once)
OrigHows == {"ok", "empty", "legs", "short", "fail"}

OrigOpened(x, legs) ==
    [x EXCEPT !.self.opening_order_tickets = OrigLastTwo(x),
              !.self.pending_open = TRUE,
              !.self.opened_short_put_symbol = legs.short,
              !.self.opened_long_put_symbol = legs.long,
              !.self.expected_credit = legs.credit]

\* lines 523-527: the clean-up of the fallback
OrigCleanUp(x, legs, sync, p) ==
    With(IF OrigInvested(x, legs.short)
         THEN OrigMarketOrder(x, legs.short, 0 - x.portfolio[legs.short], sync, p)
         ELSE x, LAMBDA y :
        IF OrigInvested(y, legs.long)
        THEN OrigMarketOrder(y, legs.long, 0 - y.portfolio[legs.long], sync, p)
        ELSE y)

orig_try_open_spread(x, chain, current_date, how, sync, p) ==
    With(orig_select_legs(chain, current_date), LAMBDA legs :
        IF ~legs.found THEN x
        ELSE IF how = "empty" THEN x
        ELSE IF how = "ok"
        THEN OrigOpened(OrigStrategyOrder(x, legs.short, legs.long, 1, sync, p), legs)
        ELSE IF how = "legs"
        THEN With(OrigMarketOrder(x, legs.short, -1, sync, p), LAMBDA y :
                 OrigOpened(OrigMarketOrder(y, legs.long, 1, sync, p), legs))
        ELSE IF how = "short"
        THEN OrigCleanUp(OrigMarketOrder(x, legs.short, -1, sync, p), legs, sync, p)
        ELSE OrigCleanUp(x, legs, sync, p))

\* lines 531-642.  how is "ok" when sell(strategy) returns its tickets and
\* anything else when it raises or returns none
OrigCloseLeg(x, sym, sync, p) ==
    IF ~OrigInvested(x, sym) THEN x
    ELSE With(OrigMarketOrder(x, sym, 0 - x.portfolio[sym], sync, p), LAMBDA y :
             [y EXCEPT !.self.closing_order_tickets = Append(@, Len(y.orders))])

orig_try_close_spread(x, how, sync, p) ==
    LET s == x.self
    IN  IF ~s.spread_is_open THEN x
        ELSE IF s.opened_short_put_symbol = None \/ s.opened_long_put_symbol = None
        THEN [x EXCEPT !.self.pending_close = FALSE]
        ELSE IF how = "ok"
        THEN With(OrigStrategyOrder(x, s.opened_short_put_symbol,
                                    s.opened_long_put_symbol, -1, sync, p),
                  LAMBDA y :
                 [y EXCEPT !.self.closing_order_tickets = @ \o OrigLastTwo(y)])
        ELSE With(OrigCloseLeg(x, s.opened_short_put_symbol, sync, p), LAMBDA y :
             With(OrigCloseLeg(y, y.self.opened_long_put_symbol, sync, p), LAMBDA z :
                 IF Len(z.orders) = Len(x.orders)
                 THEN orig_reset_spread_state(z)
                 ELSE z))

\* lines 171-291: check_stop_loss, then monitor_profit_target; debit is the
\* current debit to close, None when the quotes are missing
OrigDebits == {None, 20, 60, 120}

orig_monitor(x, debit, how, sync, p) ==
    LET s == x.self
        legs == s.opened_short_put_symbol # None /\ s.opened_long_put_symbol # None
        credit == s.initial_credit # None /\ s.initial_credit > 0
        stop_loss_hit == /\ s.spread_is_open /\ legs /\ credit /\ debit # None
                         /\ debit >= s.initial_credit * om_stop_loss_multiplier
    IN  IF stop_loss_hit
        THEN orig_try_close_spread([x EXCEPT !.self.pending_close = TRUE],
                                   how, sync, p)
        ELSE IF s.pending_close THEN x
        ELSE IF ~s.spread_is_open \/ s.initial_credit \in {None, 0} THEN x
        ELSE IF debit = None THEN x
        ELSE IF Abs(debit) * 100
                    <= s.initial_credit * (100 - om_profit_target_percentage)
        THEN orig_try_close_spread([x EXCEPT !.self.pending_close = TRUE],
                                   how, sync, p)
        ELSE x

\* lines 142-167
orig_on_data(x, chain, current_date, debit, how, sync, p) ==
    IF x.self.pending_open /\ ~x.self.spread_is_open
    THEN [orig_try_open_spread(x, chain, current_date, how, sync, p)
             EXCEPT !.self.pending_open = FALSE]
    ELSE IF x.self.pending_close /\ x.self.spread_is_open
    THEN orig_try_close_spread(x, how, sync, p)
    ELSE IF x.self.spread_is_open
    THEN orig_monitor(x, debit, how, sync, p)
    ELSE x

\* lines 129-137: the state is reset whether or not a holding was found
OrigForceReset_onlyfound(x, holding_count) ==
    IF holding_count = 0 THEN x
    ELSE [x EXCEPT !.self.spread_is_open = FALSE,
                   !.self.opening_order_tickets = <<>>,
                   !.self.closing_order_tickets = <<>>,
                   !.self.opened_short_put_symbol = None,
                   !.self.opened_long_put_symbol = None,
                   !.self.pending_close = FALSE]

OrigForceReset(x, holding_count) ==
    [x EXCEPT !.self.spread_is_open = FALSE,
              !.self.opening_order_tickets = <<>>,
              !.self.closing_order_tickets = <<>>,
              !.self.opened_short_put_symbol = None,
              !.self.opened_long_put_symbol = None,
              !.self.pending_close = FALSE]

\* lines 115-124: the loop over the holdings, from the i-th on
RECURSIVE OrigLiquidateFrom(_, _, _, _)
OrigLiquidateFrom(x, i, sync, p) ==
    IF i > Len(OrigSymSeq) THEN x
    ELSE IF x.portfolio[OrigSymSeq[i]] = 0 THEN OrigLiquidateFrom(x, i + 1, sync, p)
    ELSE OrigLiquidateFrom(
             OrigMarketOrder(x, OrigSymSeq[i], 0 - x.portfolio[OrigSymSeq[i]], sync, p),
             i + 1, sync, p)

\* lines 107-137
orig_close_all_option_positions_force(x, sync, p) ==
    With(OrigLiquidateFrom(x, 1, sync, p), LAMBDA y :
        OrigForceReset(y, Len(y.orders) - Len(x.orders)))

(***************************************************************************)
(* Specification of original-main.py: open_trades at 10:00, close_positions*)
(* 30 minutes and close_all_option_positions_force 15 minutes before the   *)
(* close, then the next day; data slices and order events at any time.     *)
(* om_phase is the number of scheduled callbacks of the day that have run. *)
(* Nothing runs after a runtime error.                                     *)
(***************************************************************************)
MaxOrigOrders == 4

\* the price at which the platform fills an order
OrigFillPrices == {100}

OrigX(und) ==
    [self |-> om_self, orders |-> om_orders, portfolio |-> om_portfolio,
     halted |-> om_halted, und |-> und]

\* the algorithm never reads an order again once it is filled, canceled or
\* invalid (it compares the ids of its tickets only): of the orders of
\* earlier callbacks that are no longer open only the id is kept
OrigDone == [symbol |-> 0, quantity |-> 0, status |-> "Done"]

OrigForget(os, n) ==
    [i \in 1..Len(os) |->
        IF i <= n /\ os[i].status # "Submitted" THEN OrigDone ELSE os[i]]

OrigCommit(x, name) ==
    /\ ~om_halted
    /\ Len(x.orders) <= MaxOrigOrders
    /\ om_self' = x.self
    /\ om_orders' = OrigForget(x.orders, Len(om_orders))
    /\ om_portfolio' = x.portfolio
    /\ om_halted' = x.halted
    /\ om_log' = [name |-> name, before |-> om_self, held |-> om_portfolio,
                  norders |-> Len(om_orders)]
    /\ UNCHANGED <<selvars, bullvars, v2vars, yavars, bearvars, calcvars>>

\* lines 89-94
orig_open_trades ==
    /\ om_phase = 0
    /\ om_phase' = 1
    /\ OrigCommit(IF om_self.spread_is_open THEN OrigX(FALSE)
                  ELSE [OrigX(FALSE) EXCEPT !.self.pending_open = TRUE],
                  "open_trades")

\* lines 98-103
orig_close_positions ==
    /\ om_phase = 1
    /\ om_phase' = 2
    /\ OrigCommit(IF ~om_self.spread_is_open THEN OrigX(FALSE)
                  ELSE [OrigX(FALSE) EXCEPT !.self.pending_close = TRUE],
                  "close_positions")

close_all_option_positions_force ==
    /\ om_phase = 2
    /\ om_phase' = 3
    /\ \E sync \in Syncs, p \in OrigFillPrices, und \in BOOLEAN :
          /\ om_portfolio = OrigFlat => (sync = "none" /\ ~und)
          /\ ~FillsNow(sync) => (p = 100 /\ ~und)
          /\ \E x \in {orig_close_all_option_positions_force(OrigX(und), sync, p)} :
                 OrigCommit(x, "close_all_option_positions_force")

OrigOnData ==
    \E chain \in OrigSlices, debit \in OrigDebits, how \in OrigHows,
       sync \in Syncs, p \in OrigFillPrices, und \in BOOLEAN :
        /\ (om_self.pending_open /\ ~om_self.spread_is_open) \/ chain = <<>>
        /\ om_self.spread_is_open \/ debit = None
        /\ \E x \in {orig_on_data(OrigX(und), chain, Today, debit, how, sync, p)} :
               /\ Len(x.orders) = Len(om_orders) =>
                      (how = "ok" /\ sync = "none")
               /\ ~FillsNow(sync) => (p = 100 /\ ~und)
               /\ OrigCommit(x, "on_data")
        /\ UNCHANGED om_phase

OrigOrderEvent ==
    \E id \in 1..Len(om_orders), status \in {"Filled", "Canceled", "Invalid"},
       p \in OrigFillPrices, und \in BOOLEAN :
        /\ om_orders[id].status = "Submitted"
        /\ status # "Filled" => (p = 100 /\ ~und)
        /\ OrigCommit(OrigEvent(OrigX(und), id, status, p), "on_order_event")
        /\ UNCHANGED om_phase

\* the next day begins when the book is flat and no order is open
OrigNewDay ==
    /\ om_phase = 3
    /\ om_portfolio = OrigFlat
    /\ \A i \in 1..Len(om_orders) : om_orders[i].status # "Submitted"
    /\ om_phase' = 0
    /\ OrigCommit(OrigX(FALSE), "new_day")

OrigNext ==
    \/ orig_open_trades
    \/ orig_close_positions
    \/ close_all_option_positions_force
    \/ OrigOnData
    \/ OrigOrderEvent
    \/ OrigNewDay

OrigSpecInit ==
    SelIdle /\ BullInit /\ V2Init /\ YAInit /\ BearInit /\ CalcIdle /\ OrigInit

SpecOrig == OrigSpecInit /\ [][OrigNext]_vars

\* C32: when close_all_option_positions_force has returned, the call has
\* submitted, for every option holding that was invested, an order of the
\* opposite quantity; spread_is_open and pending_close are False, the tracked
\* leg symbols are None and both ticket lists are empty
C32_FailsafeClosesAll ==
    om_log.name = "close_all_option_positions_force" =>
        /\ \A sym \in OrigSyms :
              om_log.held[sym] # 0 =>
                  \E i \in (om_log.norders + 1)..Len(om_orders) :
                      /\ om_orders[i].symbol = sym
                      /\ om_orders[i].quantity = 0 - om_log.held[sym]
        /\ ~om_self.spread_is_open
        /\ ~om_self.pending_close
        /\ om_self.opened_short_put_symbol = None
        /\ om_self.opened_long_put_symbol = None
        /\ om_self.opening_order_tickets = <<>>
        /\ om_self.closing_order_tickets = <<>>

\* the failsafe found both legs of a spread held, the opening tickets and
\* the leg symbols still stored, and liquidated the legs
C32_Witness ==
    /\ om_log.name = "close_all_option_positions_force"
    /\ \E a, b \in OrigSyms : om_log.held[a] < 0 /\ om_log.held[b] > 0
    /\ om_log.before.opening_order_tickets # <<>>
    /\ om_log.before.opened_short_put_symbol # None
    /\ Len(om_orders) = om_log.norders + 2
    /\ om_self.opening_order_tickets = <<>>

================================================================================
